---- MODULE Spec2Model ----
(***************************************************************************)
(* Exact-cover solver (dancing links), namespace dlx.                      *)
(*                                                                         *)
(* The matrix is modelled as the object graph the code builds: items with  *)
(* left/right links and a size, nodes with up/down links, a top item and   *)
(* an owner option, options with their vector of nodes (covered).  Every   *)
(* pointer is an identity:                                                 *)
(*   item i            -> the integer i (0-based, as in the code)          *)
(*   items.root        -> ROOT                                             *)
(*   node k of option o-> <<o, k>>   (o 0-based index, k position 1..)     *)
(*   item i's options.root (the sentinel of its column list) -> <<HEAD,i>> *)
(***************************************************************************)
EXTENDS Integers, Sequences, FiniteSets, TLC

\* Bound of the inputs: the number of items plus the number of options.
MaxSize == 6

\* Bound of the cover driver: the number of calls of item::cover it makes.
MaxCovers == 3

\* std::size_t arithmetic of item::size is modular; the model keeps a
\* narrower width (TLC integers are 32 bits).
SizeModulus == 65536

ROOT == -1
HEAD == -1
NULL == <<-2, -2>>
NOITEM == -2
\* An address outside every object: nodes.front() / nodes.back() of an empty
\* vector.
NOWHERE == -3

VARIABLES
  n_items,         \* constructor argument n_items
  sets,            \* constructor argument sets (sequence of sequences of items)
  left, right,     \* item::left, item::right   (items and ROOT)
  size,            \* item::size
  up, down,        \* node::up, node::down      (nodes and column sentinels)
  top, owner,      \* node::top, node::owner
  covered,         \* option::covered, per option (options[o] is covered[o+1])
  current_subset,  \* dancing_links::current_subset
  solutions,       \* dancing_links::solutions
  result,          \* value returned by quicksolve
  pc,              \* position of the running operation
  stack,           \* one frame per active solve/quicksolve loop: [item, node]
  covers,          \* items covered and not yet uncovered by the cover driver
  cover_calls,     \* calls of item::cover the cover driver has made
  oob_writes,      \* writes made through an item index >= n_items
  origin,          \* the tile a run of the Life rules started from
  cells,           \* bitmap::cells of the current tile (set of bit positions)
  generations,     \* calls of bitmap::next made on the way from origin to cells
  quadrants,       \* the tiles nw, ne, sw, se handed to compute_result
  init,            \* characters of the string_view read so far
  counter,         \* local counter of bitmap::bitmap(std::string_view)
  unread,          \* characters of init the loop has yet to read
  side,            \* nominal side of the sized tile in cells (square<side>)
  ops,             \* operations applied to the sized tile so far
  elements,        \* hashtable::elements (key :> element)
  calls,           \* factory calls made: arguments and returned entry
  trace            \* calls of remove / reinsert made one by one, in order

vars == <<n_items, sets, left, right, size, up, down, top, owner, covered,
          current_subset, solutions, result, pc, stack, covers, cover_calls,
          oob_writes, origin, cells, generations, quadrants, init, counter,
          unread, side, ops, trace,
          elements, calls>>

\* The matrix as one value, for the operators below.
Matrix == [left |-> left, right |-> right, size |-> size, up |-> up,
           down |-> down, top |-> top, owner |-> owner, covered |-> covered,
           hang |-> FALSE]

SetMatrix(m) ==
  /\ left' = m.left
  /\ right' = m.right
  /\ size' = m.size
  /\ up' = m.up
  /\ down' = m.down
  /\ top' = m.top
  /\ owner' = m.owner
  /\ covered' = m.covered

Header(i) == <<HEAD, i>>

\* A matrix that carries a log of the calls made on it, and the recording of
\* a call of name on x in the log of a matrix that carries one.
Logged(m) == [f \in DOMAIN m \cup {"log"} |-> IF f = "log" THEN <<>> ELSE m[f]]

note(m, name, x) ==
  IF "log" \in DOMAIN m
  THEN [m EXCEPT !.log = Append(@, [call |-> name, on |-> x])]
  ELSE m

\* Sequencing of two steps: F applied to the value of e.
Then(e, F(_)) == CHOOSE r \in {F(x) : x \in {e}} : TRUE

\* Steps after which a traversal of a list of this matrix has certainly
\* left every acyclic chain: a longer traversal never ends.
NodeFuel(m) == Cardinality(DOMAIN m.down) + 1
ItemFuel(m) == Cardinality(DOMAIN m.right) + 1

(***************************************************************************)
(* Links.                                                                  *)
(***************************************************************************)
\* item::link_next: this->right = &other; other.left = this.
item_link_next(m, this, other) ==
  LET m1 == [m EXCEPT !.right[this] = other]
  IN  [m1 EXCEPT !.left[other] = this]

\* item::link_previous: this->left = &other; other.right = this.
item_link_previous(m, this, other) ==
  LET m1 == [m EXCEPT !.left[this] = other]
  IN  [m1 EXCEPT !.right[other] = this]

\* node::link_next: this->down = &other; other.up = this.
node_link_next(m, this, other) ==
  LET m1 == [m EXCEPT !.down[this] = other]
  IN  [m1 EXCEPT !.up[other] = this]

\* node::link_previous: this->up = &other; other.down = this.
node_link_previous(m, this, other) ==
  LET m1 == [m EXCEPT !.up[this] = other]
  IN  [m1 EXCEPT !.down[other] = this]

\* list_view<node>::begin on item i's options list: iterator{&root.next()}.
list_begin(m, i) == m.down[Header(i)]

\* Variant of operator++ that leaves the iterator where it is.
node_next_stuck(m, x) == x

\* iterator<node>::operator++ : current = &current->next(), next() is *down.
node_next(m, x) == m.down[x]

\* iterator<item>::operator++ : current = &current->next(), next() is *right.
item_next(m, x) == m.right[x]

\* Variant of item::shrink that leaves size alone.
item_shrink_skipped(m, i) == m

\* item::shrink / item::grow on the std::size_t size.
item_shrink(m, i) == [m EXCEPT !.size[i] = (@ + SizeModulus - 1) % SizeModulus]

item_grow(m, i) == [m EXCEPT !.size[i] = (@ + 1) % SizeModulus]

\* item::count and item::satisfiable (size converted to bool).
count(m, i) == m.size[i]

satisfiable(m, i) == m.size[i] # 0

(***************************************************************************)
(* Construction.                                                           *)
(***************************************************************************)
\* stx::pairwise loop of linked_list(size): previous.link_next(current) for
\* every adjacent pair of the vector, from pair (i, i+1) on.
RECURSIVE link_pairs(_, _, _)
link_pairs(m, i, n) ==
  IF i + 1 >= n THEN m
  ELSE Then(item_link_next(m, i, i + 1), LAMBDA m1 : link_pairs(m1, i + 1, n))

\* linked_list<item>::linked_list(size): size default items (each its own
\* neighbour, size 0, an empty options list whose root links to itself),
\* linked pairwise, then root.link_next(front), root.link_previous(back).
linked_list(n) ==
  LET ids == (0 .. (n - 1)) \cup {ROOT}
      heads == {Header(i) : i \in ids}
      m0 == [left |-> [i \in ids |-> i], right |-> [i \in ids |-> i],
             size |-> [i \in ids |-> 0],
             up |-> [h \in heads |-> h], down |-> [h \in heads |-> h],
             top |-> <<>>, owner |-> <<>>, covered |-> <<>>, hang |-> FALSE]
  IN  Then(m0, LAMBDA e :
      Then(link_pairs(e, 0, n), LAMBDA m1 :
      Then(item_link_next(m1, ROOT, 0), LAMBDA m2 :
      item_link_previous(m2, ROOT, n - 1))))

\* Variant of push_back that links other in at the front of the list.
list_push_front(m, i, other) ==
  LET m1 == node_link_previous(m, m.down[Header(i)], other)
  IN  node_link_next(m1, Header(i), other)

\* list_view<node>::push_back(other) on item i's options list:
\* root.previous().link_next(other); root.link_previous(other).
list_push_back(m, i, other) ==
  LET m1 == node_link_next(m, m.up[Header(i)], other)
  IN  node_link_previous(m1, Header(i), other)

\* item::add_node: options.push_back(node); size += 1.
item_add_node(m, i, nd) == item_grow(list_push_back(m, i, nd), i)

\* covered.emplace_back(items[item], *this) with node::node(top, owner):
\* up{nullptr}, down{nullptr}, top, owner; top.add_node(*this).
emplace_node(m, o, item) ==
  LET nd == <<o, Len(m.covered[o + 1]) + 1>>
      m1 == [m EXCEPT !.up = @ @@ (nd :> NULL),
                      !.down = @ @@ (nd :> NULL),
                      !.top = @ @@ (nd :> item),
                      !.owner = @ @@ (nd :> o),
                      !.covered[o + 1] = Append(@, nd)]
  IN  item_add_node(m1, item, nd)

\* The loop of option::option over the items of set, from position k on.
RECURSIVE emplace_nodes(_, _, _, _)
emplace_nodes(m, o, set, k) ==
  IF k > Len(set) THEN m
  ELSE Then(emplace_node(m, o, set[k]),
            LAMBDA m1 : emplace_nodes(m1, o, set, k + 1))

\* option::option(index, items, set).
option_ctor(m, index, set) ==
  Then([m EXCEPT !.covered = Append(@, <<>>)],
       LAMBDA m1 : emplace_nodes(m1, index, set, 1))

\* The loop of dancing_links::dancing_links over sets, from position j on:
\* options.emplace_back(options.size(), items, set).
RECURSIVE emplace_options(_, _, _)
emplace_options(m, ss, j) ==
  IF j > Len(ss) THEN m
  ELSE Then(option_ctor(m, Len(m.covered), ss[j]),
            LAMBDA m1 : emplace_options(m1, ss, j + 1))

\* dancing_links::dancing_links(n_items, sets).
dancing_links(n, ss) ==
  Then(linked_list(n), LAMBDA m : emplace_options(m, ss, 1))

(***************************************************************************)
(* Removal and reinsertion.                                                *)
(***************************************************************************)
\* Variant of node::remove that also resets the node's own links.
node_remove_resetting(m, this) ==
  LET m1 == [m EXCEPT !.down[m.up[this]] = m.down[this]]
      m2 == [m1 EXCEPT !.up[m1.down[this]] = m1.up[this]]
      m3 == [m2 EXCEPT !.up[this] = this, !.down[this] = this]
  IN  note(item_shrink(m3, m3.top[this]), "node::remove", this)

\* node::remove: up->down = down; down->up = up; top.shrink().
node_remove(m, this) ==
  LET m1 == [m EXCEPT !.down[m.up[this]] = m.down[this]]
      m2 == [m1 EXCEPT !.up[m1.down[this]] = m1.up[this]]
  IN  note(item_shrink(m2, m2.top[this]), "node::remove", this)

\* Variant of node::reinsert that leaves the up link of the down neighbour.
node_reinsert_above_only(m, this) ==
  LET m1 == [m EXCEPT !.down[m.up[this]] = this]
  IN  note(item_grow(m1, m1.top[this]), "node::reinsert", this)

\* node::reinsert: up->down = this; down->up = this; top.grow().
node_reinsert(m, this) ==
  LET m1 == [m EXCEPT !.down[m.up[this]] = this]
      m2 == [m1 EXCEPT !.up[m1.down[this]] = this]
  IN  note(item_grow(m2, m2.top[this]), "node::reinsert", this)

\* item::remove: left->right = right; right->left = left.
item_remove(m, this) ==
  LET m1 == [m EXCEPT !.right[m.left[this]] = m.right[this]]
  IN  note([m1 EXCEPT !.left[m1.right[this]] = m1.left[this]],
           "item::remove", this)

\* item::reinsert: left->right = this; left->right = this.
item_reinsert(m, this) ==
  LET m1 == [m EXCEPT !.right[m.left[this]] = this]
  IN  note([m1 EXCEPT !.right[m1.left[this]] = this], "item::reinsert", this)

\* option::hide: node.remove() for every node of covered, from position k on.
RECURSIVE hide_from(_, _, _)
hide_from(m, o, k) ==
  IF k > Len(m.covered[o + 1]) THEN m
  ELSE Then(node_remove(m, m.covered[o + 1][k]),
            LAMBDA m1 : hide_from(m1, o, k + 1))

option_hide(m, o) == Then(m, LAMBDA e : hide_from(e, o, 1))

\* option::unhide: node.reinsert() for every node of covered, in vector order.
RECURSIVE unhide_from(_, _, _)
unhide_from(m, o, k) ==
  IF k > Len(m.covered[o + 1]) THEN m
  ELSE Then(node_reinsert(m, m.covered[o + 1][k]),
            LAMBDA m1 : unhide_from(m1, o, k + 1))

option_unhide(m, o) == Then(m, LAMBDA e : unhide_from(e, o, 1))

\* The loop of item::cover over the options list of item c:
\* for (auto &option : options) option.hide();  node::hide is owner.hide().
\* The iterator reads down of the current node after the body ran.
RECURSIVE cover_loop(_, _, _, _)
cover_loop(m, c, cur, fuel) ==
  IF cur = Header(c) THEN m
  ELSE IF fuel = 0 THEN [m EXCEPT !.hang = TRUE]
  ELSE Then(option_hide(m, m.owner[cur]),
            LAMBDA m1 : cover_loop(m1, c, node_next(m1, cur), fuel - 1))

\* item::cover: hide every option of the options list, then this->remove().
item_cover(m, c) ==
  Then(cover_loop(note(m, "item::cover", c), c, list_begin(m, c), NodeFuel(m)),
       LAMBDA m1 : IF m1.hang THEN m1 ELSE item_remove(m1, c))

\* The loop of item::uncover over the options list of item c.
RECURSIVE uncover_loop(_, _, _, _)
uncover_loop(m, c, cur, fuel) ==
  IF cur = Header(c) THEN m
  ELSE IF fuel = 0 THEN [m EXCEPT !.hang = TRUE]
  ELSE Then(option_unhide(m, m.owner[cur]),
            LAMBDA m1 : uncover_loop(m1, c, node_next(m1, cur), fuel - 1))

\* item::uncover: this->reinsert(), then unhide every option of the list.
item_uncover(m, c) ==
  Then(item_reinsert(note(m, "item::uncover", c), c),
       LAMBDA m1 : uncover_loop(m1, c, list_begin(m1, c), NodeFuel(m1)))

\* option::cover: node.cover() for every node of covered (node::cover is
\* top.cover()), from position k on.
RECURSIVE cover_from(_, _, _)
cover_from(m, o, k) ==
  IF m.hang \/ k > Len(m.covered[o + 1]) THEN m
  ELSE Then(item_cover(m, m.top[m.covered[o + 1][k]]),
            LAMBDA m1 : cover_from(m1, o, k + 1))

option_cover(m, o) ==
  Then(note(m, "option::cover", o), LAMBDA e : cover_from(e, o, 1))

\* option::uncover: node.uncover() for every node of covered, in vector order.
RECURSIVE uncover_from(_, _, _)
uncover_from(m, o, k) ==
  IF m.hang \/ k > Len(m.covered[o + 1]) THEN m
  ELSE Then(item_uncover(m, m.top[m.covered[o + 1][k]]),
            LAMBDA m1 : uncover_from(m1, o, k + 1))

option_uncover(m, o) ==
  Then(note(m, "option::uncover", o), LAMBDA e : uncover_from(e, o, 1))

(***************************************************************************)
(* Search helpers.                                                         *)
(***************************************************************************)
\* Variant of exact_cover that holds of every matrix.
exact_cover_always(m) == TRUE

\* dancing_links::exact_cover: items.empty(), &root.next() == &root.
exact_cover(m) == item_next(m, ROOT) = ROOT

\* Variant of the comparison that also prefers a later item of equal count.
count_less_or_equal(m, a, b) == count(m, a) <= count(m, b)

\* The comparison of next_candidate: left.count() < right.count().
count_less(m, a, b) == count(m, a) < count(m, b)

\* The loop of std::min_element from it to the root; NOITEM when the
\* traversal never comes back to the root.
RECURSIVE min_element_loop(_, _, _, _)
min_element_loop(m, smallest, it, fuel) ==
  IF it = ROOT THEN smallest
  ELSE IF fuel = 0 THEN NOITEM
  ELSE Then(IF count_less(m, it, smallest) THEN it ELSE smallest,
            LAMBDA s : min_element_loop(m, s, item_next(m, it), fuel - 1))

\* Variant of next_candidate whose comparison starts at the root instead of
\* at the first item of the list.
next_candidate_from_root(m) ==
  min_element_loop(m, ROOT, item_next(m, ROOT), ItemFuel(m))

\* dancing_links::next_candidate: *std::min_element(items.begin(),
\* items.end(), cmp); on an empty range min_element returns end(), the root.
next_candidate(m) ==
  LET first == item_next(m, ROOT)
  IN  IF first = ROOT THEN ROOT
      ELSE min_element_loop(m, first, item_next(m, first), ItemFuel(m))


(***************************************************************************)
(* Inputs.                                                                 *)
(***************************************************************************)
\* Options over the item indices in idx: non-empty, without repetition,
\* the items listed in increasing order.
OptionSets(idx) ==
  UNION {{s \in [1 .. l -> idx] :
            \A i, j \in 1 .. l : i < j => s[i] < s[j]} : l \in 1 .. Cardinality(idx)}

\* Ordered families of at most k options.
Families(idx, k) == UNION {[1 .. j -> OptionSets(idx)] : j \in 0 .. k}

Last(s) == s[Len(s)]

Front(s) == SubSeq(s, 1, Len(s) - 1)

\* Where control goes when a call of solve returns with the frames st of its
\* callers left: into the loop body of the caller, or out of the outermost call.
ReturnTo(st, resumed, final) == IF st = <<>> THEN final ELSE resumed

(***************************************************************************)
(* dancing_links::solve, on a problem constructed from in-range input.     *)
(***************************************************************************)
\* Before any problem is constructed.
Init ==
  /\ n_items = 0
  /\ sets = <<>>
  /\ left = <<>>
  /\ right = <<>>
  /\ size = <<>>
  /\ up = <<>>
  /\ down = <<>>
  /\ top = <<>>
  /\ owner = <<>>
  /\ covered = <<>>
  /\ current_subset = <<>>
  /\ solutions = <<>>
  /\ result = <<>>
  /\ pc = "start"
  /\ stack = <<>>
  /\ covers = <<>>
  /\ cover_calls = 0
  /\ oob_writes = 0
  /\ origin = {}
  /\ cells = {}
  /\ generations = 0
  /\ quadrants = <<>>
  /\ init = <<>>
  /\ counter = 0
  /\ unread = 0
  /\ side = 8
  /\ ops = 0
  /\ elements = <<>>
  /\ calls = <<>>
  /\ trace = <<>>

matrix_vars == <<left, right, size, up, down, top, owner, covered>>

input_vars == <<n_items, sets>>

search_vars == <<current_subset, solutions, result, stack>>

driver_vars == <<covers, cover_calls>>

\* The state of the exact cover solver, and the state of the Life tiles and
\* of the hashtable.
dlx_vars == <<matrix_vars, input_vars, search_vars, driver_vars, oob_writes,
              trace>>

string_vars == <<init, counter, unread>>

square_vars == <<side, ops>>

life_vars == <<origin, cells, generations, quadrants, string_vars, square_vars,
               elements, calls>>

\* dancing_links::dancing_links on an input whose item indices are all in
\* range.  The member initialiser items{n_items}:
construct_items ==
  /\ pc = "start"
  /\ \E n \in 1 .. MaxSize :
       /\ n_items' = n
       /\ SetMatrix(linked_list(n))
  /\ pc' = "constructing"
  /\ UNCHANGED <<sets, search_vars, driver_vars, oob_writes>>
  /\ UNCHANGED <<trace, life_vars>>

\* One round of the loop over sets, the next set of the input being any
\* option over the items: options.emplace_back(options.size(), items, set).
construct_option ==
  /\ pc = "constructing"
  /\ n_items + Len(sets) < MaxSize
  /\ \E set \in OptionSets(0 .. (n_items - 1)) :
       /\ sets' = Append(sets, set)
       /\ SetMatrix(option_ctor(Matrix, Len(covered), set))
  /\ UNCHANGED <<n_items, pc, search_vars, driver_vars, oob_writes>>
  /\ UNCHANGED <<trace, life_vars>>

\* The loop over sets is over and the constructor returns; control goes to
\* position p of the caller.
constructed(p) ==
  /\ pc = "constructing"
  /\ pc' = p
  /\ UNCHANGED <<matrix_vars, input_vars, search_vars, driver_vars, oob_writes>>
  /\ UNCHANGED <<trace, life_vars>>

\* auto problem = dancing_links(n_items, sets); problem.solve();
construct_return == constructed("call")

\* Entry of solve: exact_cover() -> push the solution and return; otherwise
\* next_candidate(), return if it is not satisfiable, else start the loop
\* over item.covering_options() at begin().
solve_enter ==
  /\ pc = "call"
  /\ IF exact_cover(Matrix)
     THEN /\ solutions' = Append(solutions, current_subset)
          /\ pc' = ReturnTo(stack, "resume", "returned")
          /\ stack' = stack
     ELSE LET item == next_candidate(Matrix)
          IN  /\ solutions' = solutions
              /\ IF item = NOITEM
                 THEN pc' = "hang" /\ stack' = stack
                 ELSE IF ~satisfiable(Matrix, item)
                 THEN pc' = ReturnTo(stack, "resume", "returned") /\ stack' = stack
                 ELSE /\ pc' = "loop"
                      /\ stack' = Append(stack,
                           [item |-> item,
                            node |-> list_begin(Matrix, item)])
  /\ UNCHANGED <<matrix_vars, input_vars, current_subset, result, driver_vars,
                 oob_writes>>
  /\ UNCHANGED <<trace, life_vars>>

\* The calls a step made on the matrix it started from, added to trace (none
\* when the matrix carries no log).
Traced(m1) == IF "log" \in DOMAIN m1 THEN trace \o m1.log ELSE trace

\* Loop body up to the recursive call: push the option's index on
\* current_subset, option.cover(), solve().  m0 is the matrix, with or
\* without a log.
descend(m0) ==
  /\ pc = "loop"
  /\ Last(stack).node # Header(Last(stack).item)
  /\ \E m1 \in {option_cover(m0, owner[Last(stack).node])} :
         /\ current_subset' = Append(current_subset, owner[Last(stack).node])
         /\ SetMatrix(m1)
         /\ trace' = Traced(m1)
         /\ pc' = IF m1.hang THEN "hang" ELSE "call"
  /\ UNCHANGED <<input_vars, solutions, result, stack, driver_vars, oob_writes>>
  /\ UNCHANGED life_vars

solve_descend == descend(Matrix)

\* Loop body after the recursive call: option.uncover(),
\* current_subset.pop_back(), ++iterator.
ascend(m0) ==
  /\ pc = "resume"
  /\ \E m1 \in {option_uncover(m0, owner[Last(stack).node])} :
         /\ SetMatrix(m1)
         /\ trace' = Traced(m1)
         /\ current_subset' = Front(current_subset)
         /\ stack' = [stack EXCEPT
                        ![Len(stack)].node = node_next(m1, Last(stack).node)]
         /\ pc' = IF m1.hang THEN "hang" ELSE "loop"
  /\ UNCHANGED <<input_vars, solutions, result, driver_vars, oob_writes>>
  /\ UNCHANGED life_vars

solve_ascend == ascend(Matrix)

\* The iterator reached end(): return solutions.
solve_leave ==
  /\ pc = "loop"
  /\ Last(stack).node = Header(Last(stack).item)
  /\ stack' = Front(stack)
  /\ pc' = ReturnTo(Front(stack), "resume", "returned")
  /\ UNCHANGED <<matrix_vars, input_vars, current_subset, solutions, result,
                 driver_vars, oob_writes>>
  /\ UNCHANGED <<trace, life_vars>>

(***************************************************************************)
(* dancing_links::quicksolve, on a second problem constructed from the     *)
(* same input once solve has returned on the first.                        *)
(***************************************************************************)
construct_again ==
  /\ pc = "returned"
  /\ SetMatrix(dancing_links(n_items, sets))
  /\ current_subset' = <<>>
  /\ pc' = "qcall"
  /\ UNCHANGED <<input_vars, solutions, result, stack, driver_vars, oob_writes>>
  /\ UNCHANGED <<trace, life_vars>>

\* Variant of the test that never short-circuits.
found_never(r) == FALSE

\* if (!result.empty()) return result;
found(r) == r # <<>>

quicksolve_enter ==
  /\ pc = "qcall"
  /\ IF exact_cover(Matrix)
     THEN /\ result' = current_subset
          /\ pc' = ReturnTo(stack, "qresume", "qreturned")
          /\ stack' = stack
     ELSE LET item == next_candidate(Matrix)
          IN  IF item = NOITEM
              THEN pc' = "hang" /\ stack' = stack /\ result' = result
              ELSE IF ~satisfiable(Matrix, item)
              THEN /\ result' = <<>>
                   /\ pc' = ReturnTo(stack, "qresume", "qreturned")
                   /\ stack' = stack
              ELSE /\ result' = result
                   /\ pc' = "qloop"
                   /\ stack' = Append(stack,
                        [item |-> item,
                         node |-> list_begin(Matrix, item)])
  /\ UNCHANGED <<matrix_vars, input_vars, current_subset, solutions, driver_vars,
                 oob_writes>>
  /\ UNCHANGED <<trace, life_vars>>

quicksolve_descend ==
  /\ pc = "qloop"
  /\ Last(stack).node # Header(Last(stack).item)
  /\ \E m1 \in {option_cover(Matrix, owner[Last(stack).node])} :
         /\ current_subset' = Append(current_subset, owner[Last(stack).node])
         /\ SetMatrix(m1)
         /\ pc' = IF m1.hang THEN "hang" ELSE "qcall"
  /\ UNCHANGED <<input_vars, solutions, result, stack, driver_vars, oob_writes>>
  /\ UNCHANGED <<trace, life_vars>>

\* After the recursive call: a non-empty result is returned at once, with
\* no uncover; otherwise option.uncover(), pop_back(), ++iterator.
quicksolve_ascend ==
  /\ pc = "qresume"
  /\ IF found(result)
     THEN /\ stack' = Front(stack)
          /\ pc' = ReturnTo(Front(stack), "qresume", "qreturned")
          /\ UNCHANGED <<matrix_vars, current_subset>>
     ELSE \E m1 \in {option_uncover(Matrix, owner[Last(stack).node])} :
              /\ SetMatrix(m1)
              /\ current_subset' = Front(current_subset)
              /\ stack' = [stack EXCEPT
                             ![Len(stack)].node = node_next(m1, Last(stack).node)]
              /\ pc' = IF m1.hang THEN "hang" ELSE "qloop"
  /\ UNCHANGED <<input_vars, solutions, result, driver_vars, oob_writes>>
  /\ UNCHANGED <<trace, life_vars>>

\* The iterator reached end(): return {}.
quicksolve_leave ==
  /\ pc = "qloop"
  /\ Last(stack).node = Header(Last(stack).item)
  /\ result' = <<>>
  /\ stack' = Front(stack)
  /\ pc' = ReturnTo(Front(stack), "qresume", "qreturned")
  /\ UNCHANGED <<matrix_vars, input_vars, current_subset, solutions, driver_vars,
                 oob_writes>>
  /\ UNCHANGED <<trace, life_vars>>

Next ==
  \/ construct_items
  \/ construct_option
  \/ construct_return
  \/ solve_enter
  \/ solve_descend
  \/ solve_ascend
  \/ solve_leave
  \/ construct_again
  \/ quicksolve_enter
  \/ quicksolve_descend
  \/ quicksolve_ascend
  \/ quicksolve_leave

Spec == Init /\ [][Next]_vars

\* solve with every call of cover, uncover, remove and reinsert made on the
\* way recorded in trace.
solve_descend_traced == descend(Logged(Matrix))

solve_ascend_traced == ascend(Logged(Matrix))

NextSolveTraced ==
  \/ construct_items
  \/ construct_option
  \/ construct_return
  \/ solve_enter
  \/ solve_descend_traced
  \/ solve_ascend_traced
  \/ solve_leave

SpecSolveTraced == Init /\ [][NextSolveTraced]_vars

\* A second call of solve on the same problem, once the first has returned:
\* auto first = problem.solve(); auto second = problem.solve();  The list
\* the first call returned is kept in trace; the members of the problem are
\* as the first call left them.
solve_again ==
  /\ pc = "returned"
  /\ trace = <<>>
  /\ trace' = <<[call |-> "solve", on |-> solutions]>>
  /\ pc' = "call"
  /\ UNCHANGED <<matrix_vars, input_vars, search_vars, driver_vars, oob_writes>>
  /\ UNCHANGED life_vars

NextSolveAgain ==
  \/ construct_items
  \/ construct_option
  \/ construct_return
  \/ solve_enter
  \/ solve_descend
  \/ solve_ascend
  \/ solve_leave
  \/ solve_again

SpecSolveAgain == Init /\ [][NextSolveAgain]_vars

\* The program is a single thread that keeps running until it returns.
SpecLive == Spec /\ WF_vars(Next)

\* Sanity of the model: no traversal of a list runs forever, the size of an
\* item never wraps below zero.
NoHang == pc # "hang"


(***************************************************************************)
(* item::cover / item::uncover driven directly: matched pairs, properly    *)
(* nested, on items of a constructed problem.                              *)
(***************************************************************************)
cover_construct_return == constructed("idle")

\* items[c].cover() on the matrix m0, with or without a log.
cover_call(c, m0) ==
  /\ pc = "idle"
  /\ cover_calls < MaxCovers
  /\ \A k \in 1 .. Len(covers) : covers[k] # c
  /\ \E m1 \in {item_cover(m0, c)} :
         /\ SetMatrix(m1)
         /\ trace' = Traced(m1)
         /\ pc' = IF m1.hang THEN "hang" ELSE "idle"
  /\ covers' = Append(covers, c)
  /\ cover_calls' = cover_calls + 1
  /\ UNCHANGED <<input_vars, search_vars, oob_writes>>
  /\ UNCHANGED life_vars

cover_item(c) == cover_call(c, Matrix)

\* items[c].uncover() for the item c covered last.
uncover_call(m0) ==
  /\ pc = "idle"
  /\ covers # <<>>
  /\ \E m1 \in {item_uncover(m0, Last(covers))} :
         /\ SetMatrix(m1)
         /\ trace' = Traced(m1)
         /\ pc' = IF m1.hang THEN "hang" ELSE "idle"
  /\ covers' = Front(covers)
  /\ UNCHANGED <<input_vars, search_vars, cover_calls, oob_writes>>
  /\ UNCHANGED life_vars

uncover_item == uncover_call(Matrix)

NextCover ==
  \/ construct_items
  \/ construct_option
  \/ cover_construct_return
  \/ \E c \in 0 .. (n_items - 1) : cover_item(c)
  \/ uncover_item

SpecCover == Init /\ [][NextCover]_vars

\* The same calls, each call of cover, uncover, remove and reinsert made on
\* the way recorded in trace.
cover_item_traced(c) == cover_call(c, Logged(Matrix))

uncover_item_traced == uncover_call(Logged(Matrix))

NextCoverTraced ==
  \/ construct_items
  \/ construct_option
  \/ cover_construct_return
  \/ \E c \in 0 .. (n_items - 1) : cover_item_traced(c)
  \/ uncover_item_traced

SpecCoverTraced == Init /\ [][NextCoverTraced]_vars

(***************************************************************************)
(* dancing_links::dancing_links step by step, on inputs whose options may  *)
(* name the item index n_items, one past the last item.                    *)
(***************************************************************************)
\* The member initialiser items{n_items}, then options.reserve(sets.size()).
ctor_begin ==
  /\ pc = "start"
  /\ \E n \in 1 .. (MaxSize - 1) :
       \E ss \in Families(0 .. n, MaxSize - 1 - n) :
         /\ n_items' = n
         /\ sets' = ss
         /\ SetMatrix(linked_list(n))
  /\ pc' = "emplacing"
  /\ UNCHANGED <<search_vars, driver_vars, oob_writes>>
  /\ UNCHANGED <<trace, life_vars>>

\* The option under construction has all its nodes (or there is none yet).
OptionComplete ==
  IF covered = <<>> THEN TRUE
  ELSE Len(Last(covered)) = Len(sets[Len(covered)])

\* options.emplace_back(options.size(), items, set): the option's
\* constructor starts, covered.reserve(set.size()).
ctor_emplace_option ==
  /\ pc = "emplacing"
  /\ OptionComplete
  /\ Len(covered) < Len(sets)
  /\ covered' = Append(covered, <<>>)
  /\ UNCHANGED <<input_vars, left, right, size, up, down, top, owner,
                 search_vars, pc, driver_vars, oob_writes>>
  /\ UNCHANGED <<trace, life_vars>>

\* covered.emplace_back(items[item], *this) for the next item of the set.
\* items[item] is std::vector::operator[], unchecked: for item >= n_items
\* the behaviour is undefined, and the build either faults or goes on,
\* add_node writing links and size through the out-of-range reference.
ctor_emplace_node ==
  /\ pc = "emplacing"
  /\ ~OptionComplete
  /\ LET o == Len(covered) - 1
         item == sets[o + 1][Len(Last(covered)) + 1]
     IN  IF item < n_items
         THEN /\ SetMatrix(emplace_node(Matrix, o, item))
              /\ UNCHANGED <<pc, oob_writes>>
         ELSE \/ /\ pc' = "crashed"
                 /\ UNCHANGED <<matrix_vars, oob_writes>>
              \/ /\ oob_writes' = oob_writes + 1
                 /\ covered' = [covered EXCEPT ![o + 1] =
                                  Append(@, <<o, Len(@) + 1>>)]
                 /\ top' = top @@ (<<o, Len(Last(covered)) + 1>> :> item)
                 /\ owner' = owner @@ (<<o, Len(Last(covered)) + 1>> :> o)
                 /\ up' = up @@ (<<o, Len(Last(covered)) + 1>> :> NULL)
                 /\ down' = down @@ (<<o, Len(Last(covered)) + 1>> :> NULL)
                 /\ UNCHANGED <<left, right, size, pc>>
  /\ UNCHANGED <<input_vars, search_vars, driver_vars>>
  /\ UNCHANGED <<trace, life_vars>>

\* The constructor returns: a problem instance exists.
ctor_return ==
  /\ pc = "emplacing"
  /\ OptionComplete
  /\ Len(covered) = Len(sets)
  /\ pc' = "constructed"
  /\ UNCHANGED <<matrix_vars, input_vars, search_vars, driver_vars, oob_writes>>
  /\ UNCHANGED <<trace, life_vars>>

NextCtor ==
  \/ ctor_begin
  \/ ctor_emplace_option
  \/ ctor_emplace_node
  \/ ctor_return

SpecCtor == Init /\ [][NextCtor]_vars


(***************************************************************************)
(* dancing_links(0, {}) followed by solve.  linked_list(0) applies         *)
(* stx::pairwise, nodes.front() and nodes.back() to an empty vector: the   *)
(* behaviour is undefined, the build faults at the first write through the *)
(* invalid reference or goes on with the root linked to that address.      *)
(***************************************************************************)
\* linked_list<item>::linked_list(0) when the writes go through: the root
\* alone, root.link_next(nodes.front()), root.link_previous(nodes.back()).
linked_list_empty_vector ==
  [left |-> (ROOT :> NOWHERE), right |-> (ROOT :> NOWHERE),
   size |-> (ROOT :> 0),
   up |-> (Header(ROOT) :> Header(ROOT)),
   down |-> (Header(ROOT) :> Header(ROOT)),
   top |-> <<>>, owner |-> <<>>, covered |-> <<>>, hang |-> FALSE]

\* dancing_links::dancing_links(0, {}).
construct_no_items ==
  /\ pc = "start"
  /\ n_items' = 0
  /\ \/ /\ pc' = "crashed"
        /\ UNCHANGED <<matrix_vars, oob_writes>>
     \/ /\ SetMatrix(linked_list_empty_vector)
        /\ oob_writes' = oob_writes + 2
        /\ pc' = "call_no_items"
  /\ UNCHANGED <<sets, search_vars, driver_vars>>
  /\ UNCHANGED <<trace, life_vars>>

\* solve() on that instance: exact_cover() decides whether the empty
\* current_subset is emitted; otherwise next_candidate() reads through the
\* invalid address, which faults or yields an item that is not satisfiable.
solve_no_items ==
  /\ pc = "call_no_items"
  /\ IF exact_cover(Matrix)
     THEN /\ solutions' = Append(solutions, current_subset)
          /\ pc' = "returned_no_items"
     ELSE /\ solutions' = solutions
          /\ pc' \in {"crashed", "returned_no_items"}
  /\ UNCHANGED <<matrix_vars, input_vars, current_subset, result, stack,
                 driver_vars, oob_writes>>
  /\ UNCHANGED <<trace, life_vars>>

NextNoItems ==
  \/ construct_no_items
  \/ solve_no_items
  \/ Next

SpecNoItems == Init /\ [][NextNoItems]_vars

(***************************************************************************)
(* Life tiles: life::bitmap, an 8x8 block of cells in a std::uint64_t.     *)
(* A value of that type is the set of the positions of its 1 bits, bit     *)
(* x + 8y being cell (x, y).                                               *)
(***************************************************************************)
\* Width of std::uint64_t.
Word == 64

Bits == 0 .. (Word - 1)

\* a << k and a >> k for 0 <= k < Word: bits shifted out are lost.
shl(a, k) == {p + k : p \in {q \in a : q + k < Word}}

shr(a, k) == {p - k : p \in {q \in a : q >= k}}

\* a & b, a | b, a ^ b, ~a.
bit_and(a, b) == a \cap b

bit_or(a, b) == {p : p \in a \cup b}

bit_xor(a, b) == (a \ b) \cup (b \ a)

bit_not(a) == Bits \ a

\* A literal whose bytes rows all hold the bits cols: 0x..7e.. has cols
\* 1..6, 0x..3c.. has 2..5, 0x..18.. has 3..4.
literal(cols, rows) == {x + 8 * y : x \in cols, y \in rows}

\* life::bit(value, index).
bit(value, index) == index \in value

\* life::half_adder: sum = a ^ b, carry = a & b.
\* A half adder whose sum is a | b.
half_adder_or(a, b) == [sum |-> bit_or(a, b), carry |-> bit_and(a, b)]

half_adder(a, b) == [sum |-> bit_xor(a, b), carry |-> bit_and(a, b)]

\* A full adder whose carry misses a & b.
full_adder_two_carries(a, b, c) ==
  [sum |-> bit_xor(bit_xor(a, b), c),
   carry |-> bit_or(bit_and(b, c), bit_and(a, c))]

\* life::full_adder: sum = a ^ b ^ c, carry = (a & b) | (b & c) | (a & c).
full_adder(a, b, c) ==
  [sum |-> bit_xor(bit_xor(a, b), c),
   carry |-> bit_or(bit_or(bit_and(a, b), bit_and(b, c)), bit_and(a, c))]

\* bitmap::subsquare(level).
subsquare(c, level) ==
  IF level = 2 THEN bit_and(c, literal(3 .. 4, 3 .. 4))
  ELSE IF level = 4 THEN bit_and(c, literal(2 .. 5, 2 .. 5))
  ELSE bit_and(c, literal(1 .. 6, 1 .. 6))

\* bitmap::alive(x, y).
alive(c, x, y) == bit(c, x + 8 * y)

\* Variant of the statement with the alternatives grouped under cells &.
next_rule_grouped(c, sum1, sum2, sum4) ==
  bit_and(c, bit_or(bit_and(bit_and(bit_not(sum1), bit_not(sum2)), sum4),
                    bit_and(bit_and(sum1, sum2), bit_not(sum4))))

\* The last statement of bitmap::next before the mask:
\* cells & (~sum1 & ~sum2 & sum4) | (sum1 & sum2 & ~sum4), & binding tighter
\* than |.
next_rule(c, sum1, sum2, sum4) ==
  bit_or(bit_and(c, bit_and(bit_and(bit_not(sum1), bit_not(sum2)), sum4)),
         bit_and(bit_and(sum1, sum2), bit_not(sum4)))

\* bitmap::next().
bitmap_next(c) ==
  LET to_left == shl(c, 1)
      to_right == shr(c, 1)
      mid == full_adder(to_left, c, to_right)
      mid1 == mid.sum
      mid2 == mid.carry
      up1 == shl(mid1, 8)
      up2 == shl(mid2, 8)
      down1 == shr(mid1, 8)
      down2 == shr(mid2, 8)
      s1 == full_adder(up1, mid1, down1)
      s2 == full_adder(up2, mid2, down2)
      s3 == half_adder(s1.carry, s2.sum)
      sum1 == s1.sum
      sum2 == s3.sum
      sum4 == bit_xor(s2.carry, s3.carry)
  IN  bit_and(next_rule(c, sum1, sum2, sum4), literal(1 .. 6, 1 .. 6))

\* bitmap::next(generations): the loop result = result.next().
RECURSIVE bitmap_next_n(_, _)
bitmap_next_n(c, n) ==
  IF n = 0 THEN c ELSE bitmap_next_n(bitmap_next(c), n - 1)

\* Variant of result() that advances one generation only.
bitmap_result_once(c) == subsquare(bitmap_next_n(c, 1), 4)

\* bitmap::result(): next(2).subsquare(4).
bitmap_result(c) == subsquare(bitmap_next_n(c, 2), 4)

\* bitmap::shift(right, down).
bitmap_shift(c, rightward, downward) ==
  LET shifted == rightward + 8 * downward
  IN  IF shifted > 0 THEN shl(c, shifted) ELSE shr(c, -shifted)

\* bitmap::set(index, alive):
\* cells = (cells & ~(1ull << index)) | (uint64_t(alive) << index).
bitmap_set(c, index, is_alive) ==
  bit_or(bit_and(c, bit_not(shl({0}, index))),
         shl(IF is_alive THEN {0} ELSE {}, index))

\* The loop of bitmap::bitmap(std::string_view) from character k of text on:
\* '1' -> set(counter++, true), '0' -> set(counter++, false), any other
\* character is passed over.  The state is [cells, counter].
read_char(st, c) ==
  IF c = "1"
  THEN [cells |-> bitmap_set(st.cells, st.counter, TRUE),
        counter |-> st.counter + 1]
  ELSE IF c = "0"
  THEN [cells |-> bitmap_set(st.cells, st.counter, FALSE),
        counter |-> st.counter + 1]
  ELSE st

\* for (auto c : init): the characters lo .. hi of the text, read in order
\* (the range is read by halves, the first half before the second).
RECURSIVE read_chars(_, _, _, _)
read_chars(st, text, lo, hi) ==
  IF lo > hi THEN st
  ELSE IF lo = hi THEN read_char(st, SubSeq(text, lo, lo))
  ELSE LET mid == (lo + hi) \div 2
       IN  Then(read_chars(st, text, lo, mid),
                LAMBDA st1 : read_chars(st1, text, mid + 1, hi))

\* bitmap::bitmap(std::string_view init).
bitmap_from_string(text) ==
  read_chars([cells |-> {}, counter |-> 0], text, 1, Len(text)).cells

\* set(index, alive) as the builds run it.  For index >= 64 both shifts are
\* undefined: the shift count is taken modulo 64, or the shifted values
\* are 0 and the cells stay as they are.
bitmap_set_outcomes(c, index, is_alive) ==
  IF index < Word THEN {bitmap_set(c, index, is_alive)}
  ELSE {bitmap_set(c, index % Word, is_alive), c}

\* One round of the loop as the builds run it: the states it can leave.
read_char_outcomes(st, c) ==
  IF c \in {"0", "1"}
  THEN {[cells |-> v, counter |-> st.counter + 1] :
          v \in bitmap_set_outcomes(st.cells, st.counter, c = "1")}
  ELSE {st}

(***************************************************************************)
(* Tiles of the tests, and the tiles the rules are run on.                 *)
(***************************************************************************)
empty == bitmap_from_string(
  "\n\t\t00000000\n\t\t00000000\n\t\t00000000\n\t\t00000000\n\t\t00000000\n\t\t00000000\n\t\t00000000\n\t\t00000000\n\t")

blinker == bitmap_from_string(
  "\n\t\t00000000\n\t\t00000000\n\t\t00000000\n\t\t00111000\n\t\t00000000\n\t\t00000000\n\t\t00000000\n\t\t00000000\n\t")

glider == bitmap_from_string(
  "\n\t\t00000000\n\t\t00000000\n\t\t00001000\n\t\t00000100\n\t\t00011100\n\t\t00000000\n\t\t00000000\n\t\t00000000\n\t")

toad == bitmap_from_string(
  "\n\t\t00000000\n\t\t00000000\n\t\t00000000\n\t\t00011100\n\t\t00111000\n\t\t00000000\n\t\t00000000\n\t\t00000000\n\t")

filled == bitmap_from_string(
  "\n\t\t11111111\n\t\t11111111\n\t\t11111111\n\t\t11111111\n\t\t11111111\n\t\t11111111\n\t\t11111111\n\t\t11111111\n\t")

checkers == bitmap_from_string(
  "\n\t\t00000000\n\t\t00101010\n\t\t01010100\n\t\t00101010\n\t\t01010100\n\t\t00101010\n\t\t01010100\n\t\t00000000\n\t")

\* Bound of the runs of the rules: calls of next() made on one tile.
MaxGenerations == 10

\* The nine cells around and including (x, y).
Block(x, y) == {(x + dx) + 8 * (y + dy) : dx \in -1 .. 1, dy \in -1 .. 1}

\* Every configuration of every 3x3 neighbourhood of a centre cell, the rest
\* of the tile all dead or all alive.
NeighbourhoodTiles ==
  {{S \cup rest : S \in SUBSET Block(x, y), rest \in {{}, Bits \ Block(x, y)}} :
     x \in 1 .. 6, y \in 1 .. 6}

\* The tiles of the tests, also moved by one cell.
TestTiles ==
  {bitmap_shift(t, dx, dy) :
     t \in {empty, blinker, glider, toad, filled, checkers},
     dx \in -1 .. 1, dy \in -1 .. 1}

\* A tile is constructed; next() and result() are called on it.
tile_choose ==
  /\ pc = "start"
  /\ \E t \in UNION NeighbourhoodTiles :
       /\ origin' = t
       /\ cells' = t
  /\ generations' = 0
  /\ pc' = "tile"
  /\ UNCHANGED <<dlx_vars, square_vars, quadrants, string_vars, elements, calls>>

\* next() is called on the tile.
tile_next ==
  /\ pc = "tile"
  /\ generations = 0
  /\ cells' = bitmap_next(cells)
  /\ generations' = 1
  /\ UNCHANGED <<dlx_vars, square_vars, origin, pc, quadrants, string_vars, elements,
                 calls>>

\* result() is called on the current tile, which origin keeps.
tile_result ==
  /\ pc \in {"tile", "pattern"}
  /\ origin' = cells
  /\ cells' = bitmap_result(cells)
  /\ generations' = 0
  /\ pc' = "result"
  /\ UNCHANGED <<dlx_vars, square_vars, quadrants, string_vars, elements, calls>>

NextTile ==
  \/ tile_choose
  \/ tile_next
  \/ tile_result

SpecTile == Init /\ [][NextTile]_vars

\* A tile of the tests is constructed; next(generations) and result() are
\* called on it.
pattern_choose ==
  /\ pc = "start"
  /\ \E t \in TestTiles :
       /\ origin' = t
       /\ cells' = t
  /\ generations' = 0
  /\ pc' = "pattern"
  /\ UNCHANGED <<dlx_vars, square_vars, quadrants, string_vars, elements, calls>>

\* One round of the loop of next(generations): result = result.next().
pattern_next ==
  /\ pc = "pattern"
  /\ generations < MaxGenerations
  /\ cells' = bitmap_next(cells)
  /\ generations' = generations + 1
  /\ UNCHANGED <<dlx_vars, square_vars, origin, pc, quadrants, string_vars, elements,
                 calls>>

NextPattern ==
  \/ pattern_choose
  \/ pattern_next
  \/ tile_result

SpecPattern == Init /\ [][NextPattern]_vars

(***************************************************************************)
(* compute_result(nw, ne, sw, se): the result of a 16x16 leaf given as     *)
(* four tiles.                                                             *)
(***************************************************************************)
\* bitmap::nw, ne, sw, se: one quarter of the tile, moved to the centre.
bitmap_nw(c) == subsquare(bitmap_shift(c, 2, 2), 4)

bitmap_ne(c) == subsquare(bitmap_shift(c, -2, 2), 4)

bitmap_sw(c) == subsquare(bitmap_shift(c, 2, -2), 4)

bitmap_se(c) == subsquare(bitmap_shift(c, -2, -2), 4)

\* A constructor that shifts ne and sw to each other's place.
bitmap_of_quarters_transposed(nw, ne, sw, se) ==
  bit_or(bit_or(bit_or(bitmap_shift(nw, -2, -2), bitmap_shift(ne, -2, 2)),
                bitmap_shift(sw, 2, -2)),
         bitmap_shift(se, 2, 2))

\* bitmap::bitmap(nw, ne, sw, se): cells = nw.shift(-2, -2);
\* cells |= ne.shift(2, -2); cells |= sw.shift(-2, 2); cells |= se.shift(2, 2).
bitmap_of_quarters(nw, ne, sw, se) ==
  bit_or(bit_or(bit_or(bitmap_shift(nw, -2, -2), bitmap_shift(ne, 2, -2)),
                bitmap_shift(sw, -2, 2)),
         bitmap_shift(se, 2, 2))

\* horizontal_center: bitmap(left.ne(), left.se(), right.nw(), right.sw()).
horizontal_center(l, r) ==
  bitmap_of_quarters(bitmap_ne(l), bitmap_se(l), bitmap_nw(r), bitmap_sw(r))

\* vertical_center: bitmap(upper.sw(), upper.se(), lower.nw(), lower.ne()).
vertical_center(upper, lower) ==
  bitmap_of_quarters(bitmap_sw(upper), bitmap_se(upper),
                     bitmap_nw(lower), bitmap_ne(lower))

\* center: bitmap(nw.se(), ne.sw(), sw.ne(), se.nw()).
center(nw, ne, sw, se) ==
  bitmap_of_quarters(bitmap_se(nw), bitmap_sw(ne), bitmap_ne(sw), bitmap_nw(se))

\* The first nine lines of compute_result: nw1, nn1, ne1, ww1, cc1, ee1,
\* sw1, ss1, se1.
first_round(nw, ne, sw, se) ==
  [nw1 |-> bitmap_result(nw),
   nn1 |-> bitmap_result(horizontal_center(nw, ne)),
   ne1 |-> bitmap_result(ne),
   ww1 |-> bitmap_result(vertical_center(nw, sw)),
   cc1 |-> bitmap_result(center(nw, ne, sw, se)),
   ee1 |-> bitmap_result(vertical_center(ne, se)),
   sw1 |-> bitmap_result(sw),
   ss1 |-> bitmap_result(horizontal_center(sw, se)),
   se1 |-> bitmap_result(se)]

\* The four tiles of which compute_result takes the results nw2, ne2, sw2,
\* se2.
second_squares(r) ==
  [nw |-> bitmap_of_quarters(r.nw1, r.nn1, r.ww1, r.cc1),
   ne |-> bitmap_of_quarters(r.nn1, r.ne1, r.cc1, r.ee1),
   sw |-> bitmap_of_quarters(r.ww1, r.cc1, r.sw1, r.ss1),
   se |-> bitmap_of_quarters(r.cc1, r.ee1, r.ss1, r.se1)]

\* compute_result(bitmap nw, bitmap ne, bitmap sw, bitmap se).
compute_result(nw, ne, sw, se) ==
  Then(second_squares(first_round(nw, ne, sw, se)), LAMBDA s :
       bitmap_of_quarters(bitmap_result(s.nw), bitmap_result(s.ne),
                          bitmap_result(s.sw), bitmap_result(s.se)))

\* A 16x16 square of cells is a set of pairs <<x, y>>, 0 <= x, y <= 15.
\* The tile t laid on the square with its corner at (ox, oy).
Laid(t, ox, oy) == {<<(p % 8) + ox, (p \div 8) + oy>> : p \in t}

\* The tile of the square whose corner is at (ox, oy).
TileAt(g, ox, oy) ==
  {(c[1] - ox) + 8 * (c[2] - oy) :
     c \in {d \in g : d[1] - ox \in 0 .. 7 /\ d[2] - oy \in 0 .. 7}}

\* The leaves the result is computed of: a tile of the tests anywhere on
\* the square.
Squares ==
  {Laid(t, ox, oy) : t \in {empty, blinker, glider, toad, filled, checkers},
                     ox \in 0 .. 8, oy \in 0 .. 8}

\* A leaf is constructed from the four tiles of a square.
leaf_choose ==
  /\ pc = "start"
  /\ \E g \in Squares :
       quadrants' = [nw |-> TileAt(g, 0, 0), ne |-> TileAt(g, 8, 0),
                     sw |-> TileAt(g, 0, 8), se |-> TileAt(g, 8, 8)]
  /\ pc' = "leaf"
  /\ UNCHANGED <<dlx_vars, square_vars, origin, cells, generations, string_vars,
                 elements, calls>>

\* leaf_type::result(): compute_result(nw, ne, sw, se).
leaf_result ==
  /\ pc = "leaf"
  /\ cells' = compute_result(quadrants.nw, quadrants.ne, quadrants.sw,
                             quadrants.se)
  /\ pc' = "leaf_result"
  /\ UNCHANGED <<dlx_vars, square_vars, origin, generations, quadrants, string_vars,
                 elements, calls>>

NextLeaf ==
  \/ leaf_choose
  \/ leaf_result

SpecLeaf == Init /\ [][NextLeaf]_vars

(***************************************************************************)
(* The hash-cons table: life::hash, hashtable<leaf>::emplace, leaf::create. *)
(***************************************************************************)
MaxCalls == 3

\* a + b on 64-bit words (the carries ripple; a carry out of bit 63 is lost).
RECURSIVE add64(_, _)
add64(a, b) ==
  IF b = {} THEN a
  ELSE Then(shl(bit_and(a, b), 1),
            LAMBDA carry : add64({p : p \in bit_xor(a, b)}, carry))

\* hash_impl(arg, args...): scalar = (1 << (sizeof...(args) + 1)) + 1;
\* return scalar * arg + hash_impl(args...).  hash_impl() = 0.
RECURSIVE hash_impl(_)
hash_impl(args) ==
  IF args = <<>> THEN {}
  ELSE LET scalar_bit == Len(Tail(args)) + 1
           product == add64(shl(Head(args), scalar_bit), Head(args))
       IN  add64(product, hash_impl(Tail(args)))

\* life::hash(args...).
hash(args) == IF Len(args) = 0 THEN {} ELSE hash_impl(args)

\* square<4>::square(std::uint64_t other): cells &= 0x00003c3c3c3c0000.
square4(other) == bit_and(other, literal(2 .. 5, 2 .. 5))

\* leaf::leaf(square<4> nw, square<4> ne, square<4> sw, square<4> se):
\* cells{nw, ne, sw, se}, cached_next = cells.next(),
\* cached_future = cached_next.next().
leaf(args) ==
  LET built == bitmap_of_quarters(args[1], args[2], args[3], args[4])
      after == bitmap_next(built)
  IN  [cells |-> built,
       cached_next |-> after,
       cached_future |-> square4(bitmap_next(after))]

\* The node of the map that holds the key, 0 when there is none.
find(m, key) ==
  LET hits == {i \in 1 .. Len(m) : m[i].first = key}
  IN  IF hits = {} THEN 0 ELSE CHOOSE i \in hits : \A j \in hits : i <= j

\* A map that takes every insertion, whether the key is present or not.
try_emplace_always(m, key, args) ==
  [map |-> Append(m, [first |-> key, second |-> leaf(args)]),
   first |-> Len(m) + 1, second |-> TRUE]

\* std::unordered_map::try_emplace(key, args...): the nodes of the map in
\* the order of their insertion; a node's index is its identity.
try_emplace(m, key, args) ==
  IF find(m, key) # 0
  THEN [map |-> m, first |-> find(m, key), second |-> FALSE]
  ELSE [map |-> Append(m, [first |-> key, second |-> leaf(args)]),
        first |-> Len(m) + 1, second |-> TRUE]

\* hashtable::emplace(args...): key = hash(args...);
\* result = elements.try_emplace(key, args...); return *result.first.
emplace(m, args) ==
  LET key == hash(args)
      emplaced == try_emplace(m, key, args)
  IN  [map |-> emplaced.map, node |-> emplaced.first,
       returned |-> emplaced.map[emplaced.first]]

\* The arguments of the calls: three-cell, two-cell and one-cell rows of
\* the 4x4 squares, and empty squares.
LeafArgs ==
  {<<nw, ne, sw, se>> :
     nw \in {{}, literal(2 .. 4, {2})}, ne \in {{}},
     sw \in {{}, literal(2 .. 3, {2})},
     se \in {{}, literal({3}, {2}), literal(2 .. 4, {2})}}

\* static hashtable<leaf> leaves.
leaves_new ==
  /\ pc = "start"
  /\ elements' = <<>>
  /\ calls' = <<>>
  /\ pc' = "table"
  /\ UNCHANGED <<dlx_vars, square_vars, origin, cells, generations, quadrants, string_vars>>

\* leaf::create(nw, ne, sw, se): return leaves.emplace(nw, ne, sw, se).
\* calls keeps, for every call, its arguments, the node and the element
\* returned, and the number of entries after the call.
leaf_create ==
  /\ pc = "table"
  /\ Len(calls) < MaxCalls
  /\ \E args \in LeafArgs :
       \E made \in {emplace(elements, args)} :
         /\ elements' = made.map
         /\ calls' = Append(calls, [args |-> args, node |-> made.node,
                                    returned |-> made.returned,
                                    entries |-> Len(made.map)])
  /\ UNCHANGED <<dlx_vars, square_vars, origin, cells, generations, quadrants, string_vars, pc>>

NextTable ==
  \/ leaves_new
  \/ leaf_create

SpecTable == Init /\ [][NextTable]_vars

(***************************************************************************)
(* bitmap::bitmap(std::string_view init), one character at a step.        *)
(***************************************************************************)
MaxChars == 5

\* The characters of the texts: the two digits, and two others.
Alphabet == {"0", "1", "2", "\n"}

\* n rows of a tile, written as the tests write them (a row of checkers).
RECURSIVE Rows(_)
Rows(n) == IF n = 0 THEN "" ELSE Rows(n - 1) \o "\t\t00101010\n"

\* What the loop has read when the steps begin: nothing, or all of a tile
\* but its last two cells.
Prefixes == {"", Rows(7) \o "\t\t001010"}

\* The constructor is entered: cells{}, counter = 0; the loop reads a
\* prefix, and the text has MaxChars more characters at most.
string_begin ==
  /\ pc = "start"
  /\ \E prefix \in Prefixes :
       \E st \in {read_chars([cells |-> {}, counter |-> 0], prefix, 1,
                             Len(prefix))} :
         /\ init' = prefix
         /\ cells' = st.cells
         /\ counter' = st.counter
  /\ unread' = MaxChars
  /\ pc' = "string"
  /\ UNCHANGED <<dlx_vars, square_vars, origin, generations, quadrants, elements, calls>>

\* One round of for (auto c : init): the next character c of the text is
\* read; init keeps the characters read so far.
string_read ==
  /\ pc = "string"
  /\ unread > 0
  /\ \E c \in Alphabet :
       /\ init' = init \o c
       /\ \E st \in read_char_outcomes([cells |-> cells, counter |-> counter],
                                       c) :
            /\ cells' = st.cells
            /\ counter' = st.counter
  /\ unread' = unread - 1
  /\ UNCHANGED <<dlx_vars, square_vars, origin, generations, quadrants, elements, calls,
                 pc>>

\* The text ends: the loop is left and the constructor, which is noexcept
\* and has no statement after the loop, returns the tile.
string_end ==
  /\ pc = "string"
  /\ unread' = 0
  /\ pc' = "string_done"
  /\ UNCHANGED <<dlx_vars, square_vars, origin, cells, generations, quadrants, init,
                 counter, elements, calls>>

NextString ==
  \/ string_begin
  \/ string_read
  \/ string_end

SpecString == Init /\ [][NextString]_vars

(***************************************************************************)
(* Sized tiles: square<size> of rules.h and bitmap<size> of bitmap.h.      *)
(***************************************************************************)
MaxOps == 3

\* The cells of the centre s x s of the 8x8 grid.
centre(s) ==
  IF s = 6 THEN literal(1 .. 6, 1 .. 6)
  ELSE IF s = 4 THEN literal(2 .. 5, 2 .. 5)
  ELSE IF s = 2 THEN literal(3 .. 4, 3 .. 4)
  ELSE Bits

\* A constructor that keeps the word as it is given.
square_ctor_unmasked(s, other) == other

\* square<size>::square(std::uint64_t other): cells{other}, and the edge
\* cells are set to zero for sizes 6 and 4 (bitmap<size>: truncate_edges).
square_ctor(s, other) ==
  IF s = 6 THEN bit_and(other, literal(1 .. 6, 1 .. 6))
  ELSE IF s = 4 THEN bit_and(other, literal(2 .. 5, 2 .. 5))
  ELSE IF s = 2 THEN bit_and(other, literal(3 .. 4, 3 .. 4))
  ELSE other

\* square<size>::shift(right, down): square{cells << shifted} or
\* square{cells >> -shifted}.
square_shift(s, c, rightward, downward) ==
  LET shifted == rightward + 8 * downward
  IN  IF shifted > 0 THEN square_ctor(s, shl(c, shifted))
      ELSE square_ctor(s, shr(c, -shifted))

\* square<size>::next(): the adders of the rule, and the word is returned
\* as a square<size - 2>.
square_next(s, c) ==
  LET to_left == shl(c, 1)
      to_right == shr(c, 1)
      mid == full_adder(to_left, c, to_right)
      up1 == shl(mid.sum, 8)
      up2 == shl(mid.carry, 8)
      down1 == shr(mid.sum, 8)
      down2 == shr(mid.carry, 8)
      s1 == full_adder(up1, mid.sum, down1)
      s2 == full_adder(up2, mid.carry, down2)
      s3 == half_adder(s1.carry, s2.sum)
      sum4 == bit_xor(s2.carry, s3.carry)
  IN  square_ctor(s - 2, next_rule(c, s1.sum, s3.sum, sum4))

\* square<size>::subsquare<subsize>(): square<subsize>{cells}, returned as
\* a square<size>.
square_subsquare(s, subsize, c) == square_ctor(s, square_ctor(subsize, c))

\* square<8>::nw(), ne(), sw(), se(): shift(...).subsquare<4>(), a square<4>.
square_nw(c) == square_ctor(4, square_subsquare(8, 4, square_shift(8, c, 2, 2)))

square_ne(c) == square_ctor(4, square_subsquare(8, 4, square_shift(8, c, -2, 2)))

square_sw(c) == square_ctor(4, square_subsquare(8, 4, square_shift(8, c, 2, -2)))

square_se(c) == square_ctor(4, square_subsquare(8, 4, square_shift(8, c, -2, -2)))

\* bitmap<size>::subsquare<subsize>(): bits & mask, a bitmap<subsize>.
sized_subsquare(subsize, c) == square_ctor(subsize, bit_and(c, centre(subsize)))

\* bitmap<size>::mask_edges(): bits & mask, a bitmap<size - 2>.
mask_edges(s, c) == square_ctor(s - 2, bit_and(c, centre(s - 2)))

\* The words the tiles are constructed from.
Words == {filled, checkers, glider, bit_not(checkers)}

\* square<side>{word}.
square_construct ==
  /\ pc = "start"
  /\ \E s \in {4, 6, 8}, word \in Words :
       /\ side' = s
       /\ cells' = square_ctor(s, word)
  /\ ops' = 0
  /\ pc' = "square"
  /\ UNCHANGED <<dlx_vars, origin, generations, quadrants, string_vars,
                 elements, calls>>

\* The tile is replaced by its shift.
square_shifted ==
  /\ pc = "square"
  /\ ops < MaxOps
  /\ \E rightward \in -2 .. 2, downward \in -2 .. 2 :
       cells' = square_shift(side, cells, rightward, downward)
  /\ ops' = ops + 1
  /\ UNCHANGED <<dlx_vars, origin, generations, quadrants, string_vars,
                 elements, calls, side, pc>>

\* The tile is replaced by its next generation, of side - 2.
square_advanced ==
  /\ pc = "square"
  /\ ops < MaxOps
  /\ side \in {6, 8}
  /\ cells' = square_next(side, cells)
  /\ side' = side - 2
  /\ ops' = ops + 1
  /\ UNCHANGED <<dlx_vars, origin, generations, quadrants, string_vars,
                 elements, calls, pc>>

\* The tile is replaced by a subsquare: of the same type in rules.h, of
\* type bitmap<subsize> in bitmap.h, or by mask_edges().
square_cut ==
  /\ pc = "square"
  /\ ops < MaxOps
  /\ \/ \E subsize \in {4, 6} :
          /\ cells' = square_subsquare(side, subsize, cells)
          /\ side' = side
     \/ \E subsize \in {4, 6} :
          /\ cells' = sized_subsquare(subsize, cells)
          /\ side' = subsize
     \/ /\ side \in {6, 8}
        /\ cells' = mask_edges(side, cells)
        /\ side' = side - 2
  /\ ops' = ops + 1
  /\ UNCHANGED <<dlx_vars, origin, generations, quadrants, string_vars,
                 elements, calls, pc>>

\* The tile is replaced by one of its quarters, a square<4>.
square_quarter ==
  /\ pc = "square"
  /\ ops < MaxOps
  /\ side = 8
  /\ cells' \in {square_nw(cells), square_ne(cells), square_sw(cells),
                 square_se(cells)}
  /\ side' = 4
  /\ ops' = ops + 1
  /\ UNCHANGED <<dlx_vars, origin, generations, quadrants, string_vars,
                 elements, calls, pc>>

NextSquare ==
  \/ square_construct
  \/ square_shifted
  \/ square_advanced
  \/ square_cut
  \/ square_quarter

SpecSquare == Init /\ [][NextSquare]_vars

(***************************************************************************)
(* The four-quadrant constructor and the quarter accessors.                *)
(***************************************************************************)
\* Tiles whose live cells lie in the centre 4x4: empty, full, a corner
\* cell, a row, a column, the diagonal and the centres of the test tiles.
Quarters ==
  {{}, literal(2 .. 5, 2 .. 5), literal({2}, {2}), literal({5}, {5}),
   literal(2 .. 5, {2}), literal({5}, 2 .. 5), literal({2}, 2 .. 5),
   literal(2 .. 5, {5}), {x + 8 * x : x \in 2 .. 5}} \cup
  {subsquare(t, 4) : t \in {glider, toad, checkers}}

\* bitmap(nw, ne, sw, se) is constructed; origin keeps the constructed
\* tile, quadrants the arguments.
quarters_construct ==
  /\ pc = "start"
  /\ \E nw \in Quarters, ne \in Quarters, sw \in Quarters, se \in Quarters :
       /\ quadrants' = [nw |-> nw, ne |-> ne, sw |-> sw, se |-> se]
       /\ origin' = bitmap_of_quarters(nw, ne, sw, se)
  /\ pc' = "quarters"
  /\ UNCHANGED <<dlx_vars, square_vars, cells, generations, string_vars,
                 elements, calls>>

\* One of nw(), ne(), sw(), se() is called on the constructed tile; cells
\* keeps the quarter returned.
quarters_read ==
  /\ pc = "quarters"
  /\ \E quarter \in {"nw", "ne", "sw", "se"} :
       /\ cells' = IF quarter = "nw" THEN bitmap_nw(origin)
                   ELSE IF quarter = "ne" THEN bitmap_ne(origin)
                   ELSE IF quarter = "sw" THEN bitmap_sw(origin)
                   ELSE bitmap_se(origin)
       /\ pc' = quarter
  /\ UNCHANGED <<dlx_vars, square_vars, origin, generations, quadrants,
                 string_vars, elements, calls>>

NextQuarters ==
  \/ quarters_construct
  \/ quarters_read

SpecQuarters == Init /\ [][NextQuarters]_vars

(***************************************************************************)
(* node::remove / node::reinsert / item::remove / item::reinsert called    *)
(* one at a time on the nodes and items of a constructed problem.          *)
(***************************************************************************)
MaxSteps == 2

\* The problems taken are those of fewer than MaxSize items and options.
links_construct_return ==
  /\ n_items + Len(sets) < MaxSize
  /\ constructed("links")

\* The positions of trace that hold a call of name on x.
CallsOn(x, name) ==
  {k \in 1 .. Len(trace) : trace[k] = [call |-> name, on |-> x]}

\* nodes[x].remove(), on any node of the problem.
remove_node(x) ==
  /\ pc = "links"
  /\ Len(trace) < MaxSteps
  /\ SetMatrix(node_remove(Matrix, x))
  /\ trace' = Append(trace, [call |-> "node::remove", on |-> x])
  /\ UNCHANGED <<input_vars, search_vars, driver_vars, oob_writes, pc>>
  /\ UNCHANGED life_vars

\* nodes[x].reinsert(), on a node removed before and not yet reinserted.
reinsert_node(x) ==
  /\ pc = "links"
  /\ Len(trace) < MaxSteps
  /\ Cardinality(CallsOn(x, "node::remove")) >
       Cardinality(CallsOn(x, "node::reinsert"))
  /\ SetMatrix(node_reinsert(Matrix, x))
  /\ trace' = Append(trace, [call |-> "node::reinsert", on |-> x])
  /\ UNCHANGED <<input_vars, search_vars, driver_vars, oob_writes, pc>>
  /\ UNCHANGED life_vars

\* items[i].remove(), on any item of the problem.
remove_item(i) ==
  /\ pc = "links"
  /\ Len(trace) < MaxSteps
  /\ SetMatrix(item_remove(Matrix, i))
  /\ trace' = Append(trace, [call |-> "item::remove", on |-> i])
  /\ UNCHANGED <<input_vars, search_vars, driver_vars, oob_writes, pc>>
  /\ UNCHANGED life_vars

\* items[i].reinsert(), on an item removed before and not yet reinserted.
reinsert_item(i) ==
  /\ pc = "links"
  /\ Len(trace) < MaxSteps
  /\ Cardinality(CallsOn(i, "item::remove")) >
       Cardinality(CallsOn(i, "item::reinsert"))
  /\ SetMatrix(item_reinsert(Matrix, i))
  /\ trace' = Append(trace, [call |-> "item::reinsert", on |-> i])
  /\ UNCHANGED <<input_vars, search_vars, driver_vars, oob_writes, pc>>
  /\ UNCHANGED life_vars

NextLinks ==
  \/ construct_items
  \/ construct_option
  \/ links_construct_return
  \/ \E x \in DOMAIN top : remove_node(x)
  \/ \E x \in DOMAIN top : reinsert_node(x)
  \/ \E i \in 0 .. (n_items - 1) : remove_item(i)
  \/ \E i \in 0 .. (n_items - 1) : reinsert_item(i)

SpecLinks == Init /\ [][NextLinks]_vars

(***************************************************************************)
(* The nodes of one column removed one by one from the front to the back   *)
(* and then reinserted one by one in the same order.                       *)
(***************************************************************************)
column_construct_return == constructed("column")

\* The nodes of item i in the order of the options that hold them.
RECURSIVE nodes_from(_, _)
nodes_from(i, o) ==
  IF o > Len(covered) THEN <<>>
  ELSE SelectSeq(covered[o], LAMBDA nd : top[nd] = i) \o nodes_from(i, o + 1)

nodes(i) == nodes_from(i, 1)

\* list_view<node> list{nodes}: the column of an item with two nodes or more.
column_list(i) ==
  /\ pc = "column"
  /\ Len(nodes(i)) >= 2
  /\ trace' = <<[call |-> "list_view", on |-> i]>>
  /\ pc' = "removing"
  /\ UNCHANGED <<matrix_vars, input_vars, search_vars, driver_vars, oob_writes>>
  /\ UNCHANGED life_vars

\* nodes[k].remove() for the next k, from the front on.
column_remove ==
  /\ pc = "removing"
  /\ LET all == nodes(trace[1].on)
         nd == all[Len(trace)]
     IN  /\ SetMatrix(node_remove(Matrix, nd))
         /\ trace' = Append(trace, [call |-> "node::remove", on |-> nd])
         /\ pc' = IF Len(trace) = Len(all) THEN "reinserting" ELSE "removing"
  /\ UNCHANGED <<input_vars, search_vars, driver_vars, oob_writes>>
  /\ UNCHANGED life_vars

\* nodes[k].reinsert() for the next k, from the front on.
column_reinsert ==
  /\ pc = "reinserting"
  /\ LET all == nodes(trace[1].on)
         nd == all[Len(trace) - Len(all)]
     IN  /\ SetMatrix(node_reinsert(Matrix, nd))
         /\ trace' = Append(trace, [call |-> "node::reinsert", on |-> nd])
         /\ pc' = IF Len(trace) = 2 * Len(all) THEN "reinserted"
                  ELSE "reinserting"
  /\ UNCHANGED <<input_vars, search_vars, driver_vars, oob_writes>>
  /\ UNCHANGED life_vars

NextColumn ==
  \/ construct_items
  \/ construct_option
  \/ column_construct_return
  \/ \E i \in 0 .. (n_items - 1) : column_list(i)
  \/ column_remove
  \/ column_reinsert

SpecColumn == Init /\ [][NextColumn]_vars

(***************************************************************************)
(* list_view<node> on its own: the two constructors and push_back, in the  *)
(* first and in the second version of linked_list.h.                       *)
(***************************************************************************)
MaxNodes == 12

\* The root of the list and the k-th node of the vector.
list_root == Header(0)

list_node(k) == <<0, k>>

\* A matrix that holds the root alone, not yet linked, and one that holds
\* one more node (node::node(): no neighbours).
list_unlinked ==
  [left |-> <<>>, right |-> <<>>, size |-> <<>>,
   up |-> (list_root :> NULL), down |-> (list_root :> NULL),
   top |-> <<>>, owner |-> <<>>, covered |-> <<>>, hang |-> FALSE]

with_node(m, nd) ==
  [m EXCEPT !.up = @ @@ (nd :> NULL), !.down = @ @@ (nd :> NULL)]

RECURSIVE with_nodes(_, _, _)
with_nodes(m, k, n) ==
  IF k > n THEN m ELSE with_nodes(with_node(m, list_node(k)), k + 1, n)

\* list_view(): root.link_next(root).
list_view_default == node_link_next(list_unlinked, list_root, list_root)

\* The stx::pairwise loop of list_view(Iterable &nodes):
\* previous.link_next(current) for the pairs from (k, k + 1) on.
RECURSIVE node_link_pairs(_, _, _)
node_link_pairs(m, k, n) ==
  IF k + 1 > n THEN m
  ELSE Then(node_link_next(m, list_node(k), list_node(k + 1)),
            LAMBDA m1 : node_link_pairs(m1, k + 1, n))

\* Variant of the constructor that leaves out root.link_previous(back).
list_view_over_open(n) ==
  Then(node_link_pairs(with_nodes(list_unlinked, 1, n), 1, n), LAMBDA m1 :
       node_link_next(m1, list_root, list_node(1)))

\* list_view(Iterable &nodes) over a vector of n nodes: the pairwise loop,
\* root.link_next(nodes.front()), root.link_previous(nodes.back()).
list_view_over(n) ==
  Then(node_link_pairs(with_nodes(list_unlinked, 1, n), 1, n), LAMBDA m1 :
  Then(node_link_next(m1, list_root, list_node(1)), LAMBDA m2 :
       node_link_previous(m2, list_root, list_node(n))))

\* list_view::push_back of the second version: head->link_next(other);
\* link_tail(other), where head is what root().next() reads and link_tail
\* is root().link_previous.
list_push_back_second(m, i, other) ==
  LET m1 == node_link_next(m, m.down[Header(i)], other)
  IN  node_link_previous(m1, Header(i), other)

\* list_view<node> list{}, of version v of the header.
list_construct_default(v) ==
  /\ pc = "start"
  /\ SetMatrix(list_view_default)
  /\ trace' = <<[call |-> "list_view()", on |-> v]>>
  /\ pc' = "list"
  /\ UNCHANGED <<input_vars, search_vars, driver_vars, oob_writes>>
  /\ UNCHANGED life_vars

\* std::vector<node> nodes{n}; list_view<node> list{nodes}.
list_construct_over(v, n) ==
  /\ pc = "start"
  /\ SetMatrix(list_view_over(n))
  /\ trace' = <<[call |-> "list_view(nodes)", on |-> v]>>
  /\ pc' = "list"
  /\ UNCHANGED <<input_vars, search_vars, driver_vars, oob_writes>>
  /\ UNCHANGED life_vars

\* list.push_back(other) on a node that is in no list yet.  In the second
\* version the root is the list object read as a node (reinterpret_cast):
\* head is the root's next link where the layouts agree, and the call faults
\* where they do not.
list_push(other) ==
  /\ pc = "list"
  /\ other \notin DOMAIN down
  /\ Cardinality(DOMAIN down) <= MaxNodes
  /\ trace' = Append(trace, [call |-> "push_back", on |-> other])
  /\ IF trace[1].on = 1
     THEN /\ SetMatrix(list_push_back(with_node(Matrix, other), 0, other))
          /\ pc' = "list"
     ELSE \/ /\ SetMatrix(list_push_back_second(with_node(Matrix, other), 0,
                                                other))
             /\ pc' = "list"
          \/ /\ pc' = "list_fault"
             /\ UNCHANGED matrix_vars
  /\ UNCHANGED <<input_vars, search_vars, driver_vars, oob_writes>>
  /\ UNCHANGED life_vars

NextList ==
  \/ \E v \in {1, 2} : list_construct_default(v)
  \/ \E v \in {1, 2} : \E n \in 1 .. MaxNodes : list_construct_over(v, n)
  \/ list_push(list_node(Cardinality(DOMAIN down)))

SpecList == Init /\ [][NextList]_vars

(***************************************************************************)
(* Vocabulary of the properties.                                           *)
(***************************************************************************)
Range(s) == {s[k] : k \in 1 .. Len(s)}

Items == 0 .. (n_items - 1)

OptionIndices == 0 .. (Len(sets) - 1)

\* The items of the remaining-item list, in traversal order from the root
\* (cut after fuel steps).
RECURSIVE ItemsFrom(_, _)
ItemsFrom(it, fuel) ==
  IF it = ROOT \/ fuel = 0 THEN <<>>
  ELSE <<it>> \o ItemsFrom(right[it], fuel - 1)

RemainingItems == ItemsFrom(right[ROOT], n_items + 1)

\* The nodes of item i's column list, from the header back to the header.
RECURSIVE NodesFrom(_, _, _)
NodesFrom(nd, i, fuel) ==
  IF nd = Header(i) \/ fuel = 0 THEN <<>>
  ELSE <<nd>> \o NodesFrom(down[nd], i, fuel - 1)

Column(i) == NodesFrom(down[Header(i)], i, Cardinality(DOMAIN down))

\* The calls recorded in trace from position i + 1 up to the next call of
\* cover or uncover of an item or an option: the removals or reinsertions
\* made by the call at position i itself.
RECURSIVE LinksAfter(_)
LinksAfter(i) ==
  IF i + 1 > Len(trace) THEN <<>>
  ELSE IF trace[i + 1].call \in {"item::cover", "item::uncover",
                                  "option::cover", "option::uncover"}
  THEN <<>>
  ELSE <<trace[i + 1]>> \o LinksAfter(i + 1)

\* The reinsertion r puts back what the removal u took out.
Undoes(r, u) ==
  \/ r.call = "node::reinsert" /\ u.call = "node::remove" /\ r.on = u.on
  \/ r.call = "item::reinsert" /\ u.call = "item::remove" /\ r.on = u.on

Max(S) == CHOOSE k \in S : \A j \in S : j <= k

\* The items on which the call of option::cover or option::uncover at
\* position i of trace called cover or uncover, in the order of the calls.
RECURSIVE ItemsAfter(_)
ItemsAfter(i) ==
  IF i + 1 > Len(trace) THEN <<>>
  ELSE IF trace[i + 1].call \in {"option::cover", "option::uncover"} THEN <<>>
  ELSE IF trace[i + 1].call \in {"item::cover", "item::uncover"}
  THEN <<trace[i + 1].on>> \o ItemsAfter(i + 1)
  ELSE ItemsAfter(i + 1)

Reverse(s) == [k \in 1 .. Len(s) |-> s[Len(s) + 1 - k]]

\* s, a sequence of option indices, is an exact cover: every item is in
\* exactly one of its options.
IsExactCover(s) ==
  \A i \in Items :
    Cardinality({k \in 1 .. Len(s) : i \in Range(sets[s[k] + 1])}) = 1

\* The sets of option indices whose options partition the items.
ExactCovers ==
  {S \in SUBSET OptionIndices :
     \A i \in Items : Cardinality({o \in S : i \in Range(sets[o + 1])}) = 1}

\* The depth-first search of the exact covers: the branch item is the first
\* of the remaining items, in index order, that the fewest available options
\* contain; the available options that contain it are tried in increasing
\* index order; R is the set of remaining items, A the set of available
\* options (those that share no item with an option of chosen), and the
\* value is the sequence of the covers found, in the order they are found.
BranchItem(R, A) ==
  LET n(i) == Cardinality({o \in A : i \in Range(sets[o + 1])})
  IN  CHOOSE i \in R : \A j \in R : n(i) < n(j) \/ (n(i) = n(j) /\ i <= j)

RECURSIVE Search(_, _, _), SearchFrom(_, _, _, _, _)
Search(R, A, chosen) ==
  IF R = {} THEN <<chosen>>
  ELSE SearchFrom(R, A, chosen, BranchItem(R, A), 0)

SearchFrom(R, A, chosen, item, o) ==
  IF o >= Len(sets) THEN <<>>
  ELSE (IF o \in A /\ item \in Range(sets[o + 1])
        THEN Search(R \ Range(sets[o + 1]),
                    {p \in A : Range(sets[p + 1]) \cap Range(sets[o + 1]) = {}},
                    Append(chosen, o))
        ELSE <<>>)
       \o SearchFrom(R, A, chosen, item, o + 1)

SearchOrder == Search(Items, OptionIndices, <<>>)

\* The links and counts of the matrix equal those construction produced.
AsConstructed ==
  LET m == dancing_links(n_items, sets)
  IN  /\ left = m.left
      /\ right = m.right
      /\ up = m.up
      /\ down = m.down
      /\ size = m.size

\* The B3/S23 rule: a dead cell with exactly 3 live neighbours is born, a
\* live cell with 2 or 3 live neighbours survives.
LiveNeighbours(c, x, y) ==
  Cardinality({p \in Block(x, y) \cap c : p # x + 8 * y})

LifeRule(c, x, y) ==
  IF alive(c, x, y) THEN LiveNeighbours(c, x, y) \in {2, 3}
  ELSE LiveNeighbours(c, x, y) = 3

\* The next generation of the cells of c whose neighbourhoods lie in c.
LifeStep(c) == {x + 8 * y : x \in 1 .. 6, y \in 1 .. 6} \cap
               {p \in Bits : LifeRule(c, p % 8, p \div 8)}

\* The positions of text that hold a digit.
DigitPositions(text) ==
  {k \in 1 .. Len(text) : SubSeq(text, k, k) \in {"0", "1"}}

\* The number of digits of text before position k: the digit at k is the
\* Rank-th digit, counted from 0.
Rank(text, k) == Cardinality({j \in DigitPositions(text) : j < k})

\* The square the quadrants make up.
SquareOf(q) ==
  Laid(q.nw, 0, 0) \cup Laid(q.ne, 8, 0) \cup Laid(q.sw, 0, 8)
    \cup Laid(q.se, 8, 8)

\* One B3/S23 generation of a 16x16 square, the cells around it dead.
SquareStep(g) ==
  UNION {LET n == Cardinality({d \in g : /\ d # c
                                         /\ d[1] - c[1] \in -1 .. 1
                                         /\ d[2] - c[2] \in -1 .. 1})
         IN  IF (IF c \in g THEN n \in {2, 3} ELSE n = 3) THEN {c} ELSE {} :
         c \in (0 .. 15) \X (0 .. 15)}

RECURSIVE SquareSteps(_, _)
SquareSteps(g, n) == IF n = 0 THEN g ELSE SquareSteps(SquareStep(g), n - 1)

(***************************************************************************)
(* Properties.                                                             *)
(***************************************************************************)
\* C1: every solution emitted by solve is an exact cover: each item is in
\* exactly one option of the solution (so nothing is emitted when no exact
\* cover exists).
C1_SolutionsAreExactCovers ==
  \A j \in 1 .. Len(solutions) : IsExactCover(solutions[j])

\* C2: once solve has returned, every exact cover of the input appears
\* exactly once among the solutions.
C2_EveryCoverOnce ==
  pc = "returned" =>
    \A S \in ExactCovers :
      Cardinality({j \in 1 .. Len(solutions) : Range(solutions[j]) = S}) = 1

\* C3: whenever every cover has been matched by its uncover (properly
\* nested), all item links, node links and counts have their values from
\* before the first cover.
C3_CoverUncoverRestores ==
  (pc = "idle" /\ covers = <<>>) => AsConstructed

\* C4: when solve returns, the matrix is as it was before the call and
\* current_subset is empty.
C4_SolveRestoresMatrix ==
  pc = "returned" => (AsConstructed /\ current_subset = <<>>)

\* C5: solve terminates: the outermost call reaches its final return.
C5_SolveTerminates == <>(pc = "returned")

C5_Witness ==
  /\ pc = "returned"
  /\ Len(solutions) >= 2
  /\ \E j \in 1 .. Len(solutions) : Len(solutions[j]) >= 2

\* C6: for an input naming an item index >= n_items, construction signals
\* an invalid argument: it never produces an instance, never ends any other
\* way, and never writes through the out-of-range index.
IllFormed ==
  \E j \in 1 .. Len(sets) : \E k \in 1 .. Len(sets[j]) : sets[j][k] >= n_items

C6_InvalidArgumentSignalled ==
  IllFormed => (pc \in {"emplacing", "invalid_argument"} /\ oob_writes = 0)

\* C7: whenever items remain, next_candidate returns an item of the
\* remaining-item list with the least count, and the first such item in
\* traversal order from the root.
C7_NextCandidateFirstMinimal ==
  (pc # "start" /\ right[ROOT] # ROOT) =>
    LET L == RemainingItems
        c == next_candidate(Matrix)
    IN  \E p \in 1 .. Len(L) :
          /\ L[p] = c
          /\ \A q \in 1 .. Len(L) : size[L[q]] >= size[c]
          /\ \A q \in 1 .. (p - 1) : size[L[q]] > size[c]

\* solve has just chosen its branching item, which is not the first of the
\* list and shares the least count with a later item.
C7_Witness ==
  /\ pc = "loop"
  /\ stack # <<>>
  /\ Last(stack).item = next_candidate(Matrix)
  /\ Last(stack).node = down[Header(Last(stack).item)]
  /\ LET L == RemainingItems
     IN  /\ Len(L) >= 3
         /\ L[1] # Last(stack).item
         /\ \E q \in 1 .. Len(L) :
              /\ L[q] # Last(stack).item
              /\ size[L[q]] = size[Last(stack).item]

\* C8: quicksolve on a freshly constructed problem returns the first
\* solution solve returns on an identically constructed problem, and
\* returns no solution exactly when solve returns none.
C8_QuicksolveIsFirstSolution ==
  pc = "qreturned" =>
    result = (IF solutions = <<>> THEN <<>> ELSE solutions[1])

C8_Witness ==
  /\ pc = "qreturned"
  /\ Len(solutions) >= 2
  /\ Len(result) >= 2

C10_EmptyFamilyNoSolution ==
  (sets = <<>> /\ pc = "returned") => solutions = <<>>

C10_Witness == sets = <<>> /\ pc = "returned" /\ n_items > 0

\* C11: for n_items = 0, solve emits exactly one solution, the empty
\* sequence: construction yields an instance and the call on it returns
\* with solutions = << <<>> >>.
C11_NoItemsOneEmptySolution ==
  (n_items = 0 /\ pc \in {"crashed", "returned_no_items"}) =>
    (pc = "returned_no_items" /\ solutions = << <<>> >>)

\* C12: every call of next() yields, on the centre 6x6, the next B3/S23
\* generation of the tile it is called on, and 0 on every bit outside.
C12_NextIsLifeOnCentre ==
  [][(pc = "tile" /\ pc' = "tile")
       => /\ \A x, y \in 1 .. 6 :
               bit(cells', x + 8 * y) <=> LifeRule(cells, x, y)
          /\ cells' \subseteq literal(1 .. 6, 1 .. 6)]_vars

\* next() was called on a tile with a centre cell all of whose neighbours
\* are alive (self-inclusive count 9) and one with count 8, and both died.
C12_Witness ==
  /\ pc = "tile"
  /\ generations = 1
  /\ \E x, y \in 1 .. 6 :
       /\ Block(x, y) \subseteq origin
       /\ ~bit(cells, x + 8 * y)
  /\ \E x, y \in 1 .. 6 :
       /\ Cardinality(Block(x, y) \cap origin) = 8
       /\ ~bit(cells, x + 8 * y)

\* C13: result() of a tile is the B3/S23 pattern of the tile two
\* generations later on the centre 4x4, and 0 on every bit outside it.
C13_ResultIsTwoGenerations ==
  pc = "result" =>
    cells = bit_and(LifeStep(LifeStep(origin)), literal(2 .. 5, 2 .. 5))

\* A result with live cells, of a tile whose second generation also has
\* live cells outside the centre 4x4.
C13_Witness ==
  /\ pc = "result"
  /\ cells # {}
  /\ cells # bit_and(origin, literal(2 .. 5, 2 .. 5))
  /\ ~(LifeStep(LifeStep(origin)) \subseteq literal(2 .. 5, 2 .. 5))

\* C14: the result of a 16x16 leaf is the centre 8x8 of the square after 4
\* generations of B3/S23.
C14_LeafResultIsFourGenerations ==
  pc = "leaf_result" =>
    cells = TileAt(SquareSteps(SquareOf(quadrants), 4), 4, 4)

C16_ReturnedBuiltFromArguments ==
  \A j \in 1 .. Len(calls) :
    /\ calls[j].returned.second = leaf(calls[j].args)
    /\ \A i \in 1 .. Len(calls) :
         calls[i].args # calls[j].args => calls[i].node # calls[j].node

C18_OscillatorsAndEmpty ==
  /\ \A t \in {blinker, toad} :
       /\ (pc = "pattern" /\ origin = t /\ generations = 1) => cells # t
       /\ (pc = "pattern" /\ origin = t /\ generations = 2) => cells = t
       /\ (pc = "pattern" /\ origin = t /\ generations = 3) =>
            cells = bitmap_next(t)
       /\ (pc = "result" /\ origin = t) => cells = t
  /\ (pc = "pattern" /\ origin = empty /\ generations >= 1) => cells = empty

\* next(3) was computed of the toad.
C18_Witness ==
  /\ pc = "pattern"
  /\ origin = toad
  /\ generations = 3
  /\ cells # toad

\* C19: four generations of the glider tile are the glider tile shifted by
\* shift(1, 1), as 64-bit values.
C19_GliderMovesDiagonally ==
  (pc = "pattern" /\ origin = glider /\ generations = 4) =>
    cells = bitmap_shift(glider, 1, 1)

\* next(4) was computed of the glider, and is not the glider.
C19_Witness ==
  /\ pc = "pattern"
  /\ origin = glider
  /\ generations = 4
  /\ cells # glider
  /\ cells # {}


\* C20: the k-th digit of the text read (k counted from 0) is assigned to
\* bit k of the tile, which is set iff the digit is '1'; no other bit is set
\* and the characters that are not digits take no bit position.
C20_DigitsFillBitsInOrder ==
  pc = "string" =>
    /\ counter = Cardinality(DigitPositions(init))
    /\ \A k \in DigitPositions(init) :
         Rank(init, k) < Word =>
           (bit(cells, Rank(init, k)) <=> SubSeq(init, k, k) = "1")
    /\ \A p \in cells : \E k \in DigitPositions(init) : Rank(init, k) = p


\* C21: no tile comes out of a text with fewer than 64 digits: the
\* constructor returns a tile only when it has read 64 digits or more.
C21_ShortTextRejected ==
  pc = "string_done" => counter >= Word


\* C22: a tile of nominal side 4 or 6 has no bit outside the centre 4x4 or
\* 6x6, whatever constructor or operation returned it.
C22_SizedTilesAreMasked ==
  (pc = "square" /\ side \in {4, 6}) => cells \subseteq centre(side)

\* A tile of side 4 with live cells that two operations or more returned.
C22_Witness ==
  /\ pc = "square"
  /\ side = 4
  /\ ops >= 2
  /\ cells # {}


C24_CoverKeepsOwnColumn ==
  [][\A c \in Items :
       (pc = "idle" /\ pc' = "idle" /\ covers' = Append(covers, c)) =>
         /\ Column(c)' = Column(c)
         /\ size'[c] = size[c]]_vars


\* C25: node::remove and item::remove leave the removed element's own links
\* as they were; of all other links only the down link of its up neighbour
\* and the up link of its down neighbour (for an item: the right link of its
\* left neighbour and the left link of its right neighbour) may change, and
\* of the counts only that of the node's item.
C25_RemoveKeepsOwnLinks ==
  [][/\ \A x \in DOMAIN top :
          trace' = Append(trace, [call |-> "node::remove", on |-> x]) =>
            /\ up'[x] = up[x]
            /\ down'[x] = down[x]
            /\ down'[up[x]] = down[x]
            /\ up'[down[x]] = up[x]
            /\ \A y \in DOMAIN down : down'[y] # down[y] => y = up[x]
            /\ \A y \in DOMAIN up : up'[y] # up[y] => y = down[x]
            /\ \A i \in DOMAIN size : size'[i] # size[i] => i = top[x]
            /\ size'[top[x]] = (size[top[x]] + SizeModulus - 1) % SizeModulus
            /\ left' = left
            /\ right' = right
     /\ \A i \in Items :
          trace' = Append(trace, [call |-> "item::remove", on |-> i]) =>
            /\ left'[i] = left[i]
            /\ right'[i] = right[i]
            /\ right'[left[i]] = right[i]
            /\ left'[right[i]] = left[i]
            /\ \A j \in DOMAIN right : right'[j] # right[j] => j = left[i]
            /\ \A j \in DOMAIN left : left'[j] # left[j] => j = right[i]
            /\ up' = up
            /\ down' = down
            /\ size' = size]_vars

\* A node with another node above it in its column and an item between two
\* items have been removed.
C25_Witness ==
  /\ pc = "links"
  /\ \E k \in 1 .. Len(trace) :
       /\ trace[k].call = "node::remove"
       /\ owner[trace[k].on] > 0
  /\ \E k \in 1 .. Len(trace) :
       /\ trace[k].call = "item::remove"
       /\ trace[k].on \in 1 .. (n_items - 2)

\* C26: for every call of item::uncover(c) made after item::cover(c), the
\* reinsertions it makes are the removals of that cover in reverse order: as
\* many, and the k-th reinsertion puts back what the k-th-from-last removal
\* took out.
C26_UncoverReversesCover ==
  \A j \in 1 .. Len(trace) :
    trace[j].call = "item::uncover" =>
      LET i == Max({k \in CallsOn(trace[j].on, "item::cover") : k < j})
          unlinks == LinksAfter(i)
          relinks == LinksAfter(j)
      IN  pc = "idle" =>
            /\ Len(relinks) = Len(unlinks)
            /\ \A k \in 1 .. Len(relinks) :
                 Undoes(relinks[k], unlinks[Len(unlinks) + 1 - k])

\* C27: in solve, the call of option.uncover() that follows the recursive
\* call uncovers the items of the option in the reverse of the order in which
\* the call of option.cover() before the recursive call covered them.
C27_OptionUncoveredInReverse ==
  \A j \in 1 .. Len(trace) :
    (trace[j].call = "option::uncover" /\ pc # "hang") =>
      LET i == Max({k \in CallsOn(trace[j].on, "option::cover") : k < j})
      IN  ItemsAfter(j) = Reverse(ItemsAfter(i))

C29_RemoveAllReinsertAll ==
  /\ pc \in {"removing", "reinserting"} =>
       LET removed == {k \in 1 .. Len(trace) : trace[k].call = "node::remove"}
           reinserted ==
             {k \in 1 .. Len(trace) : trace[k].call = "node::reinsert"}
       IN  reinserted = {} =>
             Len(Column(trace[1].on)) =
               Len(nodes(trace[1].on)) - Cardinality(removed)
  /\ pc = "reinserted" =>
       /\ Len(Column(trace[1].on)) = Len(nodes(trace[1].on))
       /\ AsConstructed

\* A column of three nodes has been emptied and filled again.
C29_Witness ==
  /\ pc = "reinserted"
  /\ Len(nodes(trace[1].on)) >= 3
  /\ Len(trace) = 1 + 2 * Len(nodes(trace[1].on))

C31_PushBackAppends ==
  [][(/\ pc' = "list"
      /\ trace' = Append(trace,
                         [call |-> "push_back",
                          on |-> list_node(Cardinality(DOMAIN down))])) =>
       /\ Column(0)' = Append(Column(0), list_node(Cardinality(DOMAIN down)))
       /\ down'[list_node(Cardinality(DOMAIN down))] = list_root]_vars

\* C32: a list_view just constructed over a vector of n >= 1 nodes has the
\* first node as the root's next, every node's next the following node, the
\* root as the last node's next, previous the inverse of next on every
\* element, the root included, and a traversal of n nodes; one just
\* constructed without arguments has the root as the root's next and
\* previous, size 0 and begin() = end().
C32_ConstructedListIsCircular ==
  (pc = "list" /\ Len(trace) = 1) =>
    LET n == Cardinality(DOMAIN down) - 1
    IN  /\ trace[1].call = "list_view(nodes)" =>
             /\ n >= 1
             /\ down[list_root] = list_node(1)
             /\ \A k \in 1 .. (n - 1) : down[list_node(k)] = list_node(k + 1)
             /\ down[list_node(n)] = list_root
             /\ \A x \in DOMAIN down : up[down[x]] = x /\ down[up[x]] = x
             /\ Len(Column(0)) = n
        /\ trace[1].call = "list_view()" =>
             /\ down[list_root] = list_root
             /\ up[list_root] = list_root
             /\ Len(Column(0)) = 0
             /\ list_begin(Matrix, 0) = list_root

\* A list over the twelve nodes of the test has been constructed.
C32_Witness ==
  /\ pc = "list"
  /\ trace = <<[call |-> "list_view(nodes)", on |-> 1]>>
  /\ Cardinality(DOMAIN down) = 13

\* C33: the tiles compute_result takes results of are, written as their
\* quarters (nw, ne, sw, se): for the horizontal centre of (l, r) the quarters
\* (l.ne, r.nw, l.se, r.sw); for the vertical centre of (u, d) the quarters
\* (u.sw, u.se, d.nw, d.ne); for the centre (nw.se, ne.sw, sw.ne, se.nw); and
\* in the second round (nw1, n1, w1, c1), (n1, ne1, c1, e1),
\* (w1, c1, sw1, s1), (c1, e1, s1, se1).
C33_SubsquaresComposed ==
  pc = "leaf_result" =>
    LET q == quadrants
        r == first_round(q.nw, q.ne, q.sw, q.se)
    IN  /\ horizontal_center(q.nw, q.ne) =
             bitmap_of_quarters(bitmap_ne(q.nw), bitmap_nw(q.ne),
                                bitmap_se(q.nw), bitmap_sw(q.ne))
        /\ horizontal_center(q.sw, q.se) =
             bitmap_of_quarters(bitmap_ne(q.sw), bitmap_nw(q.se),
                                bitmap_se(q.sw), bitmap_sw(q.se))
        /\ vertical_center(q.nw, q.sw) =
             bitmap_of_quarters(bitmap_sw(q.nw), bitmap_se(q.nw),
                                bitmap_nw(q.sw), bitmap_ne(q.sw))
        /\ vertical_center(q.ne, q.se) =
             bitmap_of_quarters(bitmap_sw(q.ne), bitmap_se(q.ne),
                                bitmap_nw(q.se), bitmap_ne(q.se))
        /\ center(q.nw, q.ne, q.sw, q.se) =
             bitmap_of_quarters(bitmap_se(q.nw), bitmap_sw(q.ne),
                                bitmap_ne(q.sw), bitmap_nw(q.se))
        /\ second_squares(r) =
             [nw |-> bitmap_of_quarters(r.nw1, r.nn1, r.ww1, r.cc1),
              ne |-> bitmap_of_quarters(r.nn1, r.ne1, r.cc1, r.ee1),
              sw |-> bitmap_of_quarters(r.ww1, r.cc1, r.sw1, r.ss1),
              se |-> bitmap_of_quarters(r.cc1, r.ee1, r.ss1, r.se1)]

\* C34: at entry to every call of solve and quicksolve, the outermost
\* included, the traversal of the remaining-item list from the root finds
\* exactly the items that no option of current_subset contains, and
\* exact_cover() holds exactly when every item is in an option of
\* current_subset.
C34_RemainingItemsAreUncovered ==
  pc \in {"call", "qcall"} =>
    LET chosen == UNION {Range(sets[current_subset[k] + 1]) :
                           k \in 1 .. Len(current_subset)}
    IN  /\ Range(RemainingItems) = Items \ chosen
        /\ exact_cover(Matrix) <=> Items \subseteq chosen

\* C35: at entry to and at return from every call of solve and quicksolve,
\* every element x found from the root of the remaining-item list has
\* x.right.left = x and x.left.right = x, the root included, and every
\* element x found from the header of the column list of any item has
\* x.down.up = x and x.up.down = x, the header included.
C35_ListsAreConsistent ==
  pc \in {"call", "resume", "returned", "qcall", "qresume", "qreturned"} =>
    /\ \A x \in Range(RemainingItems) \cup {ROOT} :
         left[right[x]] = x /\ right[left[x]] = x
    /\ \A i \in Items :
         \A x \in Range(Column(i)) \cup {Header(i)} :
           up[down[x]] = x /\ down[up[x]] = x

C37_QuicksolveRestores ==
  (pc = "qreturned" /\ result # <<>>) =>
    (current_subset = <<>> /\ AsConstructed)

\* C38: next_candidate is invoked (solve and quicksolve call it when
\* exact_cover() is false) only with a non-empty remaining-item list, the
\* item it returns is an element of that list and not the root, and no frame
\* of the search branches on the root.
C38_CandidateIsRemainingItem ==
  /\ (pc \in {"call", "qcall"} /\ ~exact_cover(Matrix)) =>
        /\ RemainingItems # <<>>
        /\ next_candidate(Matrix) # ROOT
        /\ next_candidate(Matrix) \in Range(RemainingItems)
  /\ \A k \in 1 .. Len(stack) : stack[k].item \in Items

\* A recursive call of quicksolve is about to invoke next_candidate with two
\* or more items left, and the candidate is not the first of the list.
C38_Witness ==
  /\ pc = "qcall"
  /\ stack # <<>>
  /\ ~exact_cover(Matrix)
  /\ Len(RemainingItems) >= 2
  /\ next_candidate(Matrix) # RemainingItems[1]

====
